---------------------------- MODULE Spec2Model ----------------------------
(***************************************************************************)
(* Budget classification rule engine of zemo416/AI_Agent_LLM.              *)
(*                                                                         *)
(* Amounts are whole currency units (integers).  A savings ratio is kept   *)
(* in hundredths of a percent, so that round(x, 2) is an integer rounding: *)
(* 20.0 % is 2000, 33.33 % is 3333.  Python's None is the empty tuple and  *)
(* a present value v is the one-element tuple <<v>>.                       *)
(***************************************************************************)
EXTENDS Integers, Sequences, FiniteSets, TLC

\* ------------------------------------------------------------------ bounds
\* Largest amount a caller passes.
MaxAmount == 4
\* Amounts go down to -NegAmount (the functions accept any number).
NegAmount == 1
\* Largest reading of the wall clock.
MaxTime == 2
\* Number of callers running analyze_budget at the same time.
NumThreads == 2
\* Number of records inserted into the store.
MaxRecords == 2
\* Longest line typed at a prompt.
MaxLineLen == 3
\* Number of rounds of the command-line loop.
MaxRounds == 2
\* time.time() is followed from 0 to MaxClock seconds.
MaxClock == 2
\* The ttl_seconds a NewsCache is made with is at most MaxTtl.
MaxTtl == 2
\* At most MaxFetches calls of the fetcher are followed.
MaxFetches == 2

Amount == (0 - NegAmount)..MaxAmount

\* ------------------------------------------------------------ Python values
None == <<>>
Some(v) == <<v>>

\* What a function hands back when it raises instead of returning.
ZeroDivisionError == [exception |-> "ZeroDivisionError"]
IsException(r) == "exception" \in DOMAIN r

Abs(x) == IF x < 0 THEN 0 - x ELSE x

\* round(n / d) to the nearest integer, ties to the even one, as Python's
\* round() does; d # 0.
RoundHalfEven(n, d) ==
    LET an == Abs(n)
        ad == Abs(d)
        q  == an \div ad
        r  == an % ad
        m  == IF 2 * r < ad THEN q
              ELSE IF 2 * r > ad THEN q + 1
              ELSE IF q % 2 = 0 THEN q ELSE q + 1
    IN  IF (n < 0) = (d < 0) THEN m ELSE 0 - m

\* round((saving_goal / income) * 100, 2), in hundredths of a percent.
savings_ratio(saving_goal, income) == RoundHalfEven(saving_goal * 10000, income)

\* One line of result["messages"]: the parts of the (formatted) string.
Msg(text) == <<text>>
RatioMsg(ratio) == <<"Recommended saving ratio: ", ratio, "%">>

\* result["flags"].add(flag); result["messages"].append(text)
AddFlagMsg(result, flag, text) ==
    [result EXCEPT !.flags = @ \cup {flag}, !.messages = Append(@, Msg(text))]

\* result["risk"] = risk
SetRisk(result, risk) == [result EXCEPT !.risk = Some(risk)]

\* ------------------------------------------- financial_ai_agent_v2/app.py
\* analyze_budget, statement by statement.  Each step below is one "if" of
\* the function together with everything that follows it; a step that
\* returns does not use the later steps.

\* Mutant of new_result: "ratio" starts as 0 instead of None.
new_result_ratio_zero(income, fixed_expenses, saving_goal, timestamp) ==
    [income    |-> income,
     fixed     |-> fixed_expenses,
     goal      |-> saving_goal,
     remaining |-> income - fixed_expenses,
     risk      |-> None,
     ratio     |-> Some(0),
     messages  |-> <<>>,
     flags     |-> {},
     timestamp |-> timestamp]

\* Mutant of new_result: "remaining" is stored with the operands swapped.
new_result_swapped_remaining(income, fixed_expenses, saving_goal, timestamp) ==
    [income    |-> income,
     fixed     |-> fixed_expenses,
     goal      |-> saving_goal,
     remaining |-> fixed_expenses - income,
     risk      |-> None,
     ratio     |-> None,
     messages  |-> <<>>,
     flags     |-> {},
     timestamp |-> timestamp]

\* Mutant of new_result: the ratio is computed while the dict is built,
\* before income is validated.
new_result_eager_ratio(income, fixed_expenses, saving_goal, timestamp) ==
    IF income = 0
    THEN ZeroDivisionError
    ELSE [income    |-> income,
          fixed     |-> fixed_expenses,
          goal      |-> saving_goal,
          remaining |-> income - fixed_expenses,
          risk      |-> None,
          ratio     |-> Some(savings_ratio(saving_goal, income)),
          messages  |-> <<>>,
          flags     |-> {},
          timestamp |-> timestamp]

\* Mutant of new_result: the evaluation time is written into the messages.
new_result_stamped_messages(income, fixed_expenses, saving_goal, timestamp) ==
    [income    |-> income,
     fixed     |-> fixed_expenses,
     goal      |-> saving_goal,
     remaining |-> income - fixed_expenses,
     risk      |-> None,
     ratio     |-> None,
     messages  |-> << <<"Analysis at ", timestamp>> >>,
     flags     |-> {},
     timestamp |-> timestamp]

\* remaining and the fresh result dict.  timestamp is datetime.now().
new_result(income, fixed_expenses, saving_goal, timestamp) ==
    [income    |-> income,
     fixed     |-> fixed_expenses,
     goal      |-> saving_goal,
     remaining |-> income - fixed_expenses,
     risk      |-> None,
     ratio     |-> None,
     messages  |-> <<>>,
     flags     |-> {},
     timestamp |-> timestamp]

\* # General suggestions
general_suggestions(result) ==
    [result EXCEPT !.messages =
        @ \o << Msg("Suggestions:"),
                Msg("Keep savings between 20% and 40% of income"),
                Msg("Reduce non-essential spending if needed"),
                Msg("Build an emergency fund (3-6 months)") >>]

\* Mutant of calculate_ratio: the ratio line is appended after the
\* suggestions instead of before them.
calculate_ratio_after_suggestions(result, income, saving_goal) ==
    LET ratio == savings_ratio(saving_goal, income)
        suggested == general_suggestions([result EXCEPT !.ratio = Some(ratio)])
    IN  IF income = 0
        THEN ZeroDivisionError
        ELSE [suggested EXCEPT !.messages = Append(@, RatioMsg(ratio))]

\* # Calculate savings ratio, then the suggestions, then return.  The
\* division raises when income is 0.
calculate_ratio(result, income, saving_goal) ==
    LET ratio == savings_ratio(saving_goal, income)
    IN  IF income = 0
        THEN ZeroDivisionError
        ELSE general_suggestions(
                 [result EXCEPT !.ratio = Some(ratio),
                                !.messages = Append(@, RatioMsg(ratio))])

\* Mutant of check_goal_too_high: the test is >= instead of >.
check_goal_too_high_ge(result, income, saving_goal, remaining) ==
    calculate_ratio(
        IF saving_goal >= remaining
        THEN AddFlagMsg(SetRisk(result, "Medium"), "goal_too_high",
                 "Your saving goal is too high based on current expenses.")
        ELSE [SetRisk(result, "Low") EXCEPT !.messages =
                 Append(@, Msg("Your saving goal is achievable."))],
        income, saving_goal)

\* Mutant of check_goal_too_high: the Medium branch returns at once, as the
\* High branches do, so no ratio is computed for it.
check_goal_too_high_returns(result, income, saving_goal, remaining) ==
    IF saving_goal > remaining
    THEN AddFlagMsg(SetRisk(result, "Medium"), "goal_too_high",
             "Your saving goal is too high based on current expenses.")
    ELSE calculate_ratio(
             [SetRisk(result, "Low") EXCEPT !.messages =
                 Append(@, Msg("Your saving goal is achievable."))],
             income, saving_goal)

\* if saving_goal > remaining: ... else: ...   (neither branch returns)
check_goal_too_high(result, income, saving_goal, remaining) ==
    calculate_ratio(
        IF saving_goal > remaining
        THEN AddFlagMsg(SetRisk(result, "Medium"), "goal_too_high",
                 "Your saving goal is too high based on current expenses.")
        ELSE [SetRisk(result, "Low") EXCEPT !.messages =
                 Append(@, Msg("Your saving goal is achievable."))],
        income, saving_goal)

\* Mutant of check_unrealistic_goal: the operands of the test are swapped.
check_unrealistic_goal_swapped(result, income, saving_goal, remaining) ==
    IF income > saving_goal
    THEN AddFlagMsg(SetRisk(result, "High"), "unrealistic_goal",
             "Your saving goal is unrealistic (greater than income).")
    ELSE check_goal_too_high(result, income, saving_goal, remaining)

\* Mutant of check_unrealistic_goal: the branch does not return.
check_unrealistic_goal_no_return(result, income, saving_goal, remaining) ==
    IF saving_goal > income
    THEN check_goal_too_high(
             AddFlagMsg(SetRisk(result, "High"), "unrealistic_goal",
                 "Your saving goal is unrealistic (greater than income)."),
             income, saving_goal, remaining)
    ELSE check_goal_too_high(result, income, saving_goal, remaining)

\* if saving_goal > income: ... return result
check_unrealistic_goal(result, income, saving_goal, remaining) ==
    IF saving_goal > income
    THEN AddFlagMsg(SetRisk(result, "High"), "unrealistic_goal",
             "Your saving goal is unrealistic (greater than income).")
    ELSE check_goal_too_high(result, income, saving_goal, remaining)

\* Mutant of check_remaining: the test is < instead of <=.
check_remaining_lt(result, income, saving_goal, remaining) ==
    IF remaining < 0
    THEN AddFlagMsg(SetRisk(result, "High"), "negative_remaining",
             "Warning: Your expenses exceed your income.")
    ELSE check_unrealistic_goal(result, income, saving_goal, remaining)

\* Mutant of check_remaining: the branch does not set the risk.
check_remaining_no_risk(result, income, saving_goal, remaining) ==
    IF remaining <= 0
    THEN AddFlagMsg(result, "negative_remaining",
             "Warning: Your expenses exceed your income.")
    ELSE check_unrealistic_goal(result, income, saving_goal, remaining)

\* # Risk assessment: if remaining <= 0: ... return result
check_remaining(result, income, saving_goal, remaining) ==
    IF remaining <= 0
    THEN AddFlagMsg(SetRisk(result, "High"), "negative_remaining",
             "Warning: Your expenses exceed your income.")
    ELSE check_unrealistic_goal(result, income, saving_goal, remaining)

\* Mutant of check_saving_goal: the test is < instead of <=.
check_saving_goal_lt(result, income, saving_goal, remaining) ==
    IF saving_goal < 0
    THEN AddFlagMsg(result, "zero_goal",
             "Saving goal is 0. You may want to set a small goal to start.")
    ELSE check_remaining(result, income, saving_goal, remaining)

\* if saving_goal <= 0: ... return result
check_saving_goal(result, income, saving_goal, remaining) ==
    IF saving_goal <= 0
    THEN AddFlagMsg(result, "zero_goal",
             "Saving goal is 0. You may want to set a small goal to start.")
    ELSE check_remaining(result, income, saving_goal, remaining)

\* Mutant of check_income: the test is < instead of <=.
check_income_lt(result, income, saving_goal, remaining) ==
    IF income < 0
    THEN AddFlagMsg(result, "invalid_income", "Income must be greater than 0.")
    ELSE check_saving_goal(result, income, saving_goal, remaining)

\* Mutant of check_income: the branch does not return, so the later checks
\* add their flags to it.
check_income_no_return(result, income, saving_goal, remaining) ==
    IF income <= 0
    THEN check_saving_goal(
             AddFlagMsg(result, "invalid_income", "Income must be greater than 0."),
             income, saving_goal, remaining)
    ELSE check_saving_goal(result, income, saving_goal, remaining)

\* # Input validation: if income <= 0: ... return result
check_income(result, income, saving_goal, remaining) ==
    IF income <= 0
    THEN AddFlagMsg(result, "invalid_income", "Income must be greater than 0.")
    ELSE check_saving_goal(result, income, saving_goal, remaining)

\* An exception raised while the dict is built leaves the function at once.
analyze_budget(income, fixed_expenses, saving_goal, timestamp) ==
    LET result == new_result(income, fixed_expenses, saving_goal, timestamp)
    IN  IF IsException(result)
        THEN result
        ELSE check_income(result, income, saving_goal, income - fixed_expenses)

\* ---------------------------------------------- Financial_AI_Agent_LLM.py
\* The command-line revision of analyze_budget: the same dict without the
\* timestamp, the same tests in the same order.
analyze_budget_cli(income, fixed_expenses, saving_goal) ==
    LET remaining == income - fixed_expenses
        result == [income    |-> income,
                   fixed     |-> fixed_expenses,
                   goal      |-> saving_goal,
                   remaining |-> remaining,
                   risk      |-> None,
                   ratio     |-> None,
                   messages  |-> <<>>,
                   flags     |-> {}]
        verdict == IF saving_goal > remaining
                   THEN AddFlagMsg(SetRisk(result, "Medium"), "goal_too_high",
                            "Your saving goal is too high based on current expenses.")
                   ELSE [SetRisk(result, "Low") EXCEPT !.messages =
                            Append(@, Msg("Your saving goal is achievable."))]
        ratio == savings_ratio(saving_goal, income)
    IN  IF income <= 0
        THEN AddFlagMsg(result, "invalid_income", "Income must be greater than 0.")
        ELSE IF saving_goal <= 0
        THEN AddFlagMsg(result, "zero_goal",
                 "Saving goal is 0. You may want to set a small goal to start.")
        ELSE IF remaining <= 0
        THEN AddFlagMsg(SetRisk(result, "High"), "negative_remaining",
                 "Warning: Your expenses exceed your income.")
        ELSE IF saving_goal > income
        THEN AddFlagMsg(SetRisk(result, "High"), "unrealistic_goal",
                 "Your saving goal is unrealistic (greater than income).")
        ELSE IF income = 0
        THEN ZeroDivisionError
        ELSE [verdict EXCEPT
                 !.ratio = Some(ratio),
                 !.messages = @ \o
                     << RatioMsg(ratio),
                        Msg("Suggestions:"),
                        Msg("- Keep savings between 20% and 40% of income (if possible)."),
                        Msg("- Reduce non-essential spending if needed."),
                        Msg("- Build an emergency fund (3-6 months).") >>]

\* -------------------------------------------------------------- the state
VARIABLES
    now,        \* the wall clock datetime.now() reads
    args,       \* the arguments of the latest call, or the values waiting in the form
    revision,   \* which analyze_budget ran last: "none", "app" or "cli"
    result,     \* what it returned: None before the first call, else Some(dict)
    raised,     \* the exception the latest call raised, None when it returned
    earlier     \* the result of the call before the latest one, when that was a
                \* call of the same revision with the same arguments; else None

budgetVars == <<now, args, revision, result, raised, earlier>>

\* Concurrent callers (one script thread per web session).
VARIABLES
    frames,     \* thread -> its call of analyze_budget: pc and local variables
    lists,      \* the list objects allocated so far, by identity (index)
    sets        \* the set objects allocated so far, by identity (index)

concVars == <<frames, lists, sets>>

Threads == 1..NumThreads

\* The advisory step (the call of the hosted language model).
VARIABLES
    client,      \* whether app.py has an API client (ZHIPU_API_KEY was set)
    advice,      \* the text the latest advisory step returned, None before it
    llm_raised,  \* the exception the latest advisory step raised, None if none
    given,       \* Some(the result variable as it was when the step began)
    model_calls  \* the model calls the latest advisory step made, in order

adviceVars == <<client, advice, llm_raised, given, model_calls>>

\* The record store (database.py on SQLite, database_postgres.py).
VARIABLES
    backend,            \* which class get_database() instantiated
    financial_records,  \* the rows of table financial_records
    record_messages,    \* the rows of table record_messages, in rowid order
    last_id,            \* the AUTOINCREMENT / SERIAL counter of record ids
    outcome,            \* the outcome of the latest call of the store
    inserted            \* the assessments handed to insert_financial_record
                        \* and not deleted since, with user and returned id

storeVars == <<backend, financial_records, record_messages, last_id,
               outcome, inserted>>

\* The input collector of the command-line loop.
VARIABLES
    collector,  \* which function prompts: read_float or
                \* validate_positive_decimal
    phase,      \* "idle", "prompt" (inside input()) or "returned"
    line,       \* the characters typed since the prompt
    answer,     \* what the collector returned: None, or Some(number)
    entered     \* the line on which it returned

inputVars == <<collector, phase, line, answer, entered>>

\* The follow-up questions of the command-line loop.
VARIABLES
    questions,  \* what generate_followup_questions returned, None before
    assessed    \* the result it was handed, as it was before the call

followVars == <<questions, assessed>>

\* The three revisions of analyze_budget side by side.
VARIABLES
    reports     \* what rules.py, Financial_AI_Agent_LLM.py and app.py
                \* returned for the arguments args, None before the calls

revisionVars == <<reports>>

\* The command-line loop (main of Financial_AI_Agent_LLM.py and of main.py).
VARIABLES
    program,        \* whose main() runs: "Financial_AI_Agent_LLM.py" or "main.py"
    main_pc,        \* where main() stands: "idle", a prompt ("start",
                    \* "income", "fixed", "goal", "choice"), "analyze",
                    \* "llm" or "ended"
    amounts,        \* the amounts read in this round, in order
    results,        \* what analyze_budget returned in this round
    analyze_calls,  \* how many calls of analyze_budget were made
    llm_calls,      \* how many calls of the language model were made
    typed_q,        \* whether q was typed at a prompt
    calls_at_q,     \* the two counters when q was typed
    crashed         \* the exception that ended main(), None if none

mainVars == <<program, main_pc, amounts, results, analyze_calls, llm_calls,
              typed_q, calls_at_q, crashed>>

\* The browser session of the app: st.session_state, where the current run
\* of the script stands with the user id it computed, and whether the last
\* thing the session did about its identity was to log out.
VARIABLES session_state, run, logged_out
sessionVars == <<session_state, run, logged_out>>

\* The news cache: the module-level NewsCache object, time.time(), the calls
\* of the fetcher so far with their times, and what the last call of
\* get_news_with_cache got from the cache and returned.
VARIABLES news_cache, clock, fetched, cached, news
newsVars == <<news_cache, clock, fetched, cached, news>>

\* What the page showed of st.session_state.current_month_data: the
\* rendered parts, or the exception that stopped the rendering.
VARIABLES shown
displayVars == <<shown>>

\* One round of the command-line loop as numbers: the values read_float
\* returned for income, fixed expenses and saving goal, and the assessment
\* analyze_budget made of them.
VARIABLES floats, assessment
floatVars == <<floats, assessment>>

\* The variables of the other parts of the program, which a call of
\* analyze_budget leaves alone.
notBudgetVars == <<concVars, adviceVars, storeVars, inputVars,
                   followVars,
                   revisionVars,
                   mainVars,
                   sessionVars,
                   newsVars,
                   displayVars,
                   floatVars>>
notConcVars == <<budgetVars, adviceVars, storeVars, inputVars,
                 followVars,
                 revisionVars,
                 mainVars,
                 sessionVars,
                 newsVars,
                 displayVars,
                 floatVars>>
notStoreVars == <<budgetVars, concVars, adviceVars, inputVars,
                  followVars,
                  revisionVars,
                  mainVars,
                  sessionVars,
                  newsVars,
                  displayVars,
                  floatVars>>
notInputVars == <<budgetVars, concVars, adviceVars, storeVars,
                  followVars,
                  revisionVars,
                  mainVars,
                  sessionVars,
                  newsVars,
                  displayVars,
                  floatVars>>
notFollowVars == <<budgetVars, concVars, adviceVars, storeVars, inputVars,
                   revisionVars,
                   mainVars,
                   sessionVars,
                   newsVars,
                   displayVars,
                   floatVars>>
notRevisionVars == <<budgetVars, concVars, adviceVars, storeVars, inputVars, followVars,
                     mainVars,
                     sessionVars,
                     newsVars,
                     displayVars,
                     floatVars>>
notBudgetFollowVars == <<concVars, adviceVars, storeVars, inputVars,
                         revisionVars,
                         mainVars,
                         sessionVars,
                         newsVars,
                         displayVars,
                         floatVars>>
notBudgetRevisionVars == <<concVars, adviceVars, storeVars, inputVars,
                           followVars,
                           mainVars,
                           sessionVars,
                           newsVars,
                           displayVars,
                           floatVars>>
notMainVars == <<budgetVars, concVars, adviceVars, storeVars, inputVars, followVars, revisionVars,
                 sessionVars,
                 newsVars,
                 displayVars,
                 floatVars>>
notSessionVars == <<budgetVars, concVars, adviceVars, storeVars, inputVars, followVars, revisionVars, mainVars,
                    newsVars,
                    displayVars,
                    floatVars>>
notNewsVars == <<budgetVars, concVars, adviceVars, storeVars, inputVars, followVars, revisionVars, mainVars, sessionVars,
                 displayVars,
                 floatVars>>
notDisplayVars == <<budgetVars, concVars, adviceVars, storeVars, inputVars, followVars, revisionVars, mainVars, sessionVars, newsVars,
                    floatVars>>
notFloatVars == <<budgetVars, concVars, adviceVars, storeVars, inputVars, followVars, revisionVars, mainVars, sessionVars, newsVars, displayVars>>
\* What the advisory step leaves alone (it is handed the result).
notAdviceVars == <<now, args, revision, raised, earlier, concVars, storeVars,
                   inputVars,
                   followVars,
                   revisionVars,
                   mainVars,
                   sessionVars,
                   newsVars,
                   displayVars,
                   floatVars>>

vars == <<budgetVars, notBudgetVars>>

BudgetInit ==
    /\ now = 0
    /\ args \in [income : Amount, fixed_expenses : Amount, saving_goal : Amount]
    /\ revision = "none"
    /\ result = None
    /\ raised = None
    /\ earlier = None

\* caller: result = analyze_budget(...), where the call gave r.  An exception
\* propagates and the assignment does not happen.
Assign(r, rev, new_args) ==
    /\ args' = new_args
    /\ revision' = rev
    /\ IF IsException(r)
       THEN raised' = Some(r.exception) /\ UNCHANGED result
       ELSE raised' = None /\ result' = Some(r)
    /\ earlier' = IF revision = rev /\ raised = None /\ args = new_args
                  THEN result ELSE None

\* app.py: result = analyze_budget(income, expenses, goal)
CallApp(income, fixed_expenses, saving_goal) ==
    /\ Assign(analyze_budget(income, fixed_expenses, saving_goal, now), "app",
              [income |-> income, fixed_expenses |-> fixed_expenses,
               saving_goal |-> saving_goal])
    /\ UNCHANGED now
    /\ UNCHANGED notBudgetVars

\* Financial_AI_Agent_LLM.py: results = analyze_budget(income, fixed, goal)
CallCli(income, fixed_expenses, saving_goal) ==
    /\ Assign(analyze_budget_cli(income, fixed_expenses, saving_goal), "cli",
              [income |-> income, fixed_expenses |-> fixed_expenses,
               saving_goal |-> saving_goal])
    /\ UNCHANGED now
    /\ UNCHANGED notBudgetVars

\* Time passes between calls.
Tick ==
    /\ now < MaxTime
    /\ now' = now + 1
    /\ UNCHANGED <<args, revision, result, raised, earlier>>
    /\ UNCHANGED notBudgetVars

\* No concurrent call is in progress.
ConcIdle ==
    /\ frames = [t \in Threads |-> [pc |-> "idle"]]
    /\ lists = <<>>
    /\ sets = <<>>

\* No advisory step was made.
AdviceIdle ==
    /\ client = FALSE
    /\ advice = None
    /\ llm_raised = None
    /\ given = None
    /\ model_calls = <<>>

\* Nobody is being prompted.
InputIdle ==
    /\ collector = "read_float"
    /\ phase = "idle"
    /\ line = <<>>
    /\ answer = None
    /\ entered = <<>>

\* No follow-up question was generated.
FollowIdle ==
    /\ questions = None
    /\ assessed = None

\* The revisions were not compared.
RevisionsIdle == reports = None

\* main() is not running.
MainIdle ==
    /\ program = "Financial_AI_Agent_LLM.py"
    /\ main_pc = "idle"
    /\ amounts = <<>>
    /\ results = None
    /\ analyze_calls = 0
    /\ llm_calls = 0
    /\ typed_q = FALSE
    /\ calls_at_q = <<0, 0>>
    /\ crashed = None

\* st.session_state once app.py has filled in its defaults; user_data, which
\* no default is set for, reads as None while absent.
fresh_session ==
    [authenticated |-> FALSE, guest_mode |-> FALSE, user_id |-> None,
     user_data |-> None]

\* No script run has started.
SessionIdle ==
    /\ session_state = fresh_session
    /\ run = [at |-> "not_started", user_id |-> None]
    /\ logged_out = FALSE

\* NewsCache(ttl_seconds), with nothing in it
NewsCache(ttl_seconds) == [cache |-> {}, ttl |-> ttl_seconds]

\* The cache was not used.
NewsIdle ==
    /\ news_cache = NewsCache(1)
    /\ clock = 0
    /\ fetched = <<>>
    /\ cached = None
    /\ news = None

\* Nothing was displayed.
DisplayIdle == shown = None

\* No amount was read.
FloatIdle ==
    /\ floats = <<>>
    /\ assessment = None

\* The store is empty and was not called.
StoreIdle ==
    /\ backend = "sqlite"
    /\ financial_records = {}
    /\ record_messages = <<>>
    /\ last_id = 0
    /\ outcome = None
    /\ inserted = {}

\* ------------------------------------------- concurrent calls (app.py)
\* analyze_budget run by several threads at once, one statement group at a
\* time.  The dict of a call holds references to its list and its set.

\* One argument triple for each path through the function.
ConcArgs ==
    { [income |-> 0, fixed_expenses |-> 0, saving_goal |-> 1],
      [income |-> 2, fixed_expenses |-> 1, saving_goal |-> 0],
      [income |-> 1, fixed_expenses |-> 2, saving_goal |-> 1],
      [income |-> 1, fixed_expenses |-> 0, saving_goal |-> 2],
      [income |-> 3, fixed_expenses |-> 2, saving_goal |-> 2],
      [income |-> 3, fixed_expenses |-> 1, saving_goal |-> 1] }

\* Mutant of fresh_object: one module-level object is reused by every call.
shared_object(heap) == 1

\* The identity of the object a literal [] or set() creates: a new one.
fresh_object(heap) == Len(heap) + 1

\* result["messages"].append(m), result["flags"].add(x)
list_append(heap, id, m) == [heap EXCEPT ![id] = Append(@, m)]
set_add(heap, id, x) == [heap EXCEPT ![id] = @ \cup {x}]

\* Thread t moves to pc with its result dict changed to r.
Goto(t, pc, r) == frames' = [frames EXCEPT ![t].pc = pc, ![t].result = r]

BudgetIdle ==
    /\ now = 0
    /\ args = [income |-> 0, fixed_expenses |-> 0, saving_goal |-> 0]
    /\ revision = "none"
    /\ result = None
    /\ raised = None
    /\ earlier = None

ConcInit ==
    /\ frames \in [Threads -> { [pc |-> "start", income |-> a.income,
                                 fixed_expenses |-> a.fixed_expenses,
                                 saving_goal |-> a.saving_goal] : a \in ConcArgs }]
    /\ lists = <<>>
    /\ sets = <<>>

\* remaining = ...; result = {...}
ConcNewResult(t) ==
    LET f == frames[t]
    IN  /\ f.pc = "start"
        /\ lists' = Append(lists, <<>>)
        /\ sets' = Append(sets, {})
        /\ frames' = [frames EXCEPT ![t] =
               [pc |-> "check_income",
                income |-> f.income,
                fixed_expenses |-> f.fixed_expenses,
                saving_goal |-> f.saving_goal,
                remaining |-> f.income - f.fixed_expenses,
                suggested |-> 0,
                result |-> [income    |-> f.income,
                            fixed     |-> f.fixed_expenses,
                            goal      |-> f.saving_goal,
                            remaining |-> f.income - f.fixed_expenses,
                            risk      |-> None,
                            ratio     |-> None,
                            messages  |-> fresh_object(lists),
                            flags     |-> fresh_object(sets),
                            timestamp |-> now]]]
        /\ UNCHANGED notConcVars

\* A branch that adds a flag and a message to the thread's result.
ConcFlag(t, pc, r, flag, text) ==
    /\ sets' = set_add(sets, r.flags, flag)
    /\ lists' = list_append(lists, r.messages, Msg(text))
    /\ Goto(t, pc, r)

\* A test that fails: on to the next statement.
ConcPass(t, pc) ==
    /\ Goto(t, pc, frames[t].result)
    /\ UNCHANGED <<lists, sets>>

ConcCheckIncome(t) ==
    LET f == frames[t]
    IN  /\ f.pc = "check_income"
        /\ IF f.income <= 0
           THEN ConcFlag(t, "done", f.result, "invalid_income",
                         "Income must be greater than 0.")
           ELSE ConcPass(t, "check_saving_goal")
        /\ UNCHANGED notConcVars

ConcCheckSavingGoal(t) ==
    LET f == frames[t]
    IN  /\ f.pc = "check_saving_goal"
        /\ IF f.saving_goal <= 0
           THEN ConcFlag(t, "done", f.result, "zero_goal",
                    "Saving goal is 0. You may want to set a small goal to start.")
           ELSE ConcPass(t, "check_remaining")
        /\ UNCHANGED notConcVars

ConcCheckRemaining(t) ==
    LET f == frames[t]
    IN  /\ f.pc = "check_remaining"
        /\ IF f.remaining <= 0
           THEN ConcFlag(t, "done", SetRisk(f.result, "High"), "negative_remaining",
                         "Warning: Your expenses exceed your income.")
           ELSE ConcPass(t, "check_unrealistic_goal")
        /\ UNCHANGED notConcVars

ConcCheckUnrealisticGoal(t) ==
    LET f == frames[t]
    IN  /\ f.pc = "check_unrealistic_goal"
        /\ IF f.saving_goal > f.income
           THEN ConcFlag(t, "done", SetRisk(f.result, "High"), "unrealistic_goal",
                         "Your saving goal is unrealistic (greater than income).")
           ELSE ConcPass(t, "check_goal_too_high")
        /\ UNCHANGED notConcVars

ConcCheckGoalTooHigh(t) ==
    LET f == frames[t]
    IN  /\ f.pc = "check_goal_too_high"
        /\ IF f.saving_goal > f.remaining
           THEN ConcFlag(t, "calculate_ratio", SetRisk(f.result, "Medium"),
                    "goal_too_high",
                    "Your saving goal is too high based on current expenses.")
           ELSE /\ lists' = list_append(lists, f.result.messages,
                                Msg("Your saving goal is achievable."))
                /\ Goto(t, "calculate_ratio", SetRisk(f.result, "Low"))
                /\ UNCHANGED sets
        /\ UNCHANGED notConcVars

ConcCalculateRatio(t) ==
    LET f == frames[t]
        ratio == savings_ratio(f.saving_goal, f.income)
    IN  /\ f.pc = "calculate_ratio"
        /\ f.income # 0
        /\ lists' = list_append(lists, f.result.messages, RatioMsg(ratio))
        /\ Goto(t, "general_suggestions", [f.result EXCEPT !.ratio = Some(ratio)])
        /\ UNCHANGED sets
        /\ UNCHANGED notConcVars

\* The four suggestion lines, one append at a time.
ConcGeneralSuggestions(t) ==
    LET f == frames[t]
        all == general_suggestions([messages |-> <<>>]).messages
    IN  /\ f.pc = "general_suggestions"
        /\ lists' = list_append(lists, f.result.messages, all[f.suggested + 1])
        /\ frames' = [frames EXCEPT
               ![t].suggested = @ + 1,
               ![t].pc = IF f.suggested + 1 = Len(all) THEN "done" ELSE @]
        /\ UNCHANGED sets
        /\ UNCHANGED notConcVars

InitConc ==
    /\ BudgetIdle
    /\ ConcInit
    /\ AdviceIdle
    /\ StoreIdle
    /\ InputIdle
    /\ FollowIdle
    /\ RevisionsIdle
    /\ MainIdle
    /\ SessionIdle
    /\ NewsIdle
    /\ DisplayIdle
    /\ FloatIdle

NextConc ==
    \E t \in Threads :
        \/ ConcNewResult(t)
        \/ ConcCheckIncome(t)
        \/ ConcCheckSavingGoal(t)
        \/ ConcCheckRemaining(t)
        \/ ConcCheckUnrealisticGoal(t)
        \/ ConcCheckGoalTooHigh(t)
        \/ ConcCalculateRatio(t)
        \/ ConcGeneralSuggestions(t)

\* ------------------------------------------------------ the advisory step
\* app.py, get_ai_analysis: the models, in order of preference.
models_to_try == <<"glm-4", "glm-4-plus", "glm-3-turbo", "chatglm_turbo">>

\* The facts sent to the model, and the canned text when every model failed.
fact_text(r) ==
    <<"Income: $", r.income, "Fixed Expenses: $", r.fixed,
      "Saving Goal: $", r.goal, "Remaining: $", r.remaining,
      "Risk Level: ", r.risk, "Savings Ratio: ", r.ratio, "%">>
fallback_text(r) ==
    <<"AI Analysis Unavailable", "Income: $", r.income,
      "Expenses: $", r.fixed, "Savings: $", r.remaining,
      "Risk Level: ", r.risk>>

\* response.choices[0].message.content of a call that succeeded.
response_content(model_name, prompt) == <<"response of ", model_name, prompt>>

\* One call of client.chat.completions.create, and whether it raised.
ModelCall(model_name, raised_error) ==
    [model |-> model_name, raised |-> raised_error]

\* Mutant of try_models: the fallback is returned when the first model
\* fails (the test names models_to_try[0] instead of models_to_try[-1]).
RECURSIVE try_models_first(_, _, _, _)
try_models_first(k, r, fails, calls) ==
    LET model_name == models_to_try[k]
        called == Append(calls, ModelCall(model_name, model_name \in fails))
    IN  IF model_name \notin fails
        THEN [text |-> response_content(model_name, fact_text(r)),
              called |-> called, result |-> r]
        ELSE IF model_name = models_to_try[1]
        THEN [text |-> fallback_text(r), called |-> called, result |-> r]
        ELSE try_models_first(k + 1, r, fails, called)

\* The for loop from its k-th model on, after the calls made so far; the
\* calls of the models in fails raise.  Gives the returned text, the calls
\* made, in order, and the result dict as the function leaves it.
RECURSIVE try_models(_, _, _, _)
try_models(k, r, fails, calls) ==
    LET model_name == models_to_try[k]
        called == Append(calls, ModelCall(model_name, model_name \in fails))
    IN  IF model_name \notin fails
        THEN [text |-> response_content(model_name, fact_text(r)),
              called |-> called, result |-> r]
        ELSE IF model_name = models_to_try[Len(models_to_try)]
        THEN [text |-> fallback_text(r), called |-> called, result |-> r]
        ELSE try_models(k + 1, r, fails, called)

not_available_text ==
    <<"AI analysis is not available. Please set ZHIPU_API_KEY.">>

get_ai_analysis(has_client, r, fails) ==
    IF ~has_client
    THEN [text |-> not_available_text, called |-> <<>>, result |-> r]
    ELSE try_models(1, r, fails, <<>>)

\* Financial_AI_Agent_LLM.py, main: the one model call of the loop, outside
\* any try; fact_text joins the keys of the result dict.
cli_llm_call(r, fails) ==
    IF fails
    THEN [exception |-> "APIError",
          called |-> <<ModelCall("glm-4-flash", TRUE)>>]
    ELSE [text |-> response_content("glm-4-flash",
                       <<"income", "fixed", "goal", "remaining", "risk",
                         "ratio", "messages", "flags">>),
          called |-> <<ModelCall("glm-4-flash", FALSE)>>, result |-> r]

\* A step that asked for advice and got out (a text or an exception).
Advised(out) ==
    /\ given' = Some(result)
    /\ IF IsException(out)
       THEN /\ llm_raised' = Some(out.exception)
            /\ model_calls' = out.called
            /\ UNCHANGED <<advice, result>>
       ELSE /\ llm_raised' = None
            /\ advice' = Some(out.text)
            /\ model_calls' = out.called
            /\ result' = Some(out.result)
    /\ UNCHANGED client
    /\ UNCHANGED notAdviceVars

\* app.py: ai_advice = get_ai_analysis(result)
GetAiAnalysis(fails) ==
    /\ revision = "app"
    /\ result # None
    /\ Advised(get_ai_analysis(client, result[1], fails))

\* Financial_AI_Agent_LLM.py, main: response = client.chat.completions.create(...)
CliLlmCall(fails) ==
    /\ revision = "cli"
    /\ result # None
    /\ Advised(cli_llm_call(result[1], fails))

\* An assessment has been made of amounts the forms let through (none is
\* negative), by the web app (with or without an API key) or by the
\* command-line loop (which always builds a client).
InitAdvice ==
    /\ now = 0
    /\ raised = None
    /\ earlier = None
    /\ args \in [income : 0..MaxAmount, fixed_expenses : 0..MaxAmount,
                 saving_goal : 0..MaxAmount]
    /\ revision \in {"app", "cli"}
    /\ result = Some(IF revision = "app"
                     THEN analyze_budget(args.income, args.fixed_expenses,
                                         args.saving_goal, now)
                     ELSE analyze_budget_cli(args.income, args.fixed_expenses,
                                             args.saving_goal))
    /\ ConcIdle
    /\ StoreIdle
    /\ InputIdle
    /\ client \in (IF revision = "app" THEN BOOLEAN ELSE {TRUE})
    /\ advice = None
    /\ llm_raised = None
    /\ given = None
    /\ model_calls = <<>>
    /\ FollowIdle
    /\ RevisionsIdle
    /\ MainIdle
    /\ SessionIdle
    /\ NewsIdle
    /\ DisplayIdle
    /\ FloatIdle

NextAdvice ==
    \/ \E fails \in SUBSET {models_to_try[k] : k \in 1..Len(models_to_try)} :
           GetAiAnalysis(fails)
    \/ \E fails \in BOOLEAN : CliLlmCall(fails)

\* --------------------------------------------------------- the record store
\* Both classes keep the same two tables and differ in what is noted below.
\* Amounts are whole units and ratios whole hundredths, which REAL,
\* DECIMAL(10,2) and DECIMAL(5,2) hold exactly.
Backends == {"sqlite", "postgres"}
UserIds == {"alice", "bob"}

\* The assessments that are saved: one argument triple for each path
\* through analyze_budget.
StoreArgs == ConcArgs

\* "for flag in flags: ...; break": the flag stored with every message is
\* the one the iteration of the set yields first, which the hash order of
\* the process decides; without flags the for-else stores NULL.
first_flags(flags) ==
    IF flags = {} THEN {None} ELSE {Some(flag) : flag \in flags}

\* The row of financial_records an insert adds.
record_row(record_id, r, user_id) ==
    [id |-> record_id, user_id |-> user_id, timestamp |-> r.timestamp,
     income |-> r.income, fixed_expenses |-> r.fixed, saving_goal |-> r.goal,
     remaining |-> r.remaining, risk_level |-> r.risk,
     savings_ratio |-> r.ratio]

\* The rows of record_messages an insert adds, one per message.
message_rows(record_id, r, flag) ==
    [k \in 1..Len(r.messages) |->
        [record_id |-> record_id, message |-> r.messages[k], flag |-> flag]]

\* SELECT message, flag FROM record_messages WHERE record_id = ?
messages_of(rows, record_id) ==
    SelectSeq(rows, LAMBDA row : row.record_id = record_id)

\* record['ratio']: SQLite hands the column back; Postgres tests the value
\* for truth before converting it, and Decimal('0.00') is false.
read_ratio(db, column) ==
    IF db = "sqlite" THEN column
    ELSE IF column # None /\ column[1] # 0
    THEN column
    ELSE None

\* The dict get_all_records builds from a row.
record_dict(db, row, rows) ==
    LET messages_rows == messages_of(rows, row.id)
    IN  [id |-> row.id, user_id |-> row.user_id, timestamp |-> row.timestamp,
         income |-> row.income, remaining |-> row.remaining,
         messages |-> [k \in 1..Len(messages_rows) |->
                          messages_rows[k].message],
         flags |-> {messages_rows[k].flag[1] :
                       k \in {j \in 1..Len(messages_rows) :
                                  messages_rows[j].flag # None}},
         fixed |-> row.fixed_expenses, goal |-> row.saving_goal,
         risk |-> row.risk_level,
         ratio |-> read_ratio(db, row.savings_ratio)]

\* get_all_records: the records of the user, or of everybody when user_id
\* is empty.  (The order, by created_at, is not modelled.)
get_all_records(db, table, rows, user_id) ==
    {record_dict(db, row, rows) :
        row \in {x \in table : user_id = "" \/ x.user_id = user_id}}

\* What a call of the store gave: a value, or an exception.
Outcome(call, arg, value) ==
    Some([call |-> call, arg |-> arg, value |-> Some(value),
          exception |-> None])
Raised(call, arg, exception) ==
    Some([call |-> call, arg |-> arg, value |-> None,
          exception |-> Some(exception)])

\* db.insert_financial_record(result, user_id), of a fresh assessment
InsertFinancialRecord(a, user_id) ==
    /\ last_id < MaxRecords
    /\ LET r == analyze_budget(a.income, a.fixed_expenses, a.saving_goal, now)
           record_id == last_id + 1
       IN  \E flag \in first_flags(r.flags) :
              /\ financial_records' =
                     financial_records \cup {record_row(record_id, r, user_id)}
              /\ record_messages' =
                     record_messages \o message_rows(record_id, r, flag)
              /\ last_id' = record_id
              /\ outcome' = Outcome("insert_financial_record", user_id,
                                    record_id)
              /\ inserted' = inserted \cup
                     {[id |-> record_id, user_id |-> user_id, result |-> r]}
    /\ UNCHANGED backend
    /\ UNCHANGED notStoreVars

\* db.get_all_records(user_id)
GetAllRecords(user_id) ==
    /\ outcome' = Outcome("get_all_records", user_id,
                          get_all_records(backend, financial_records,
                                          record_messages, user_id))
    /\ UNCHANGED <<backend, financial_records, record_messages, last_id,
                   inserted>>
    /\ UNCHANGED notStoreVars

\* db.delete_record(record_id): class PostgresDatabase has no such method.
DeleteRecord(record_id) ==
    /\ IF backend = "sqlite"
       THEN /\ record_messages' =
                   SelectSeq(record_messages,
                             LAMBDA row : row.record_id # record_id)
            /\ financial_records' =
                   {row \in financial_records : row.id # record_id}
            /\ outcome' = Outcome("delete_record", record_id, TRUE)
            /\ inserted' = {e \in inserted : e.id # record_id}
       ELSE /\ outcome' = Raised("delete_record", record_id,
                                 "AttributeError")
            /\ UNCHANGED <<financial_records, record_messages, inserted>>
    /\ UNCHANGED <<backend, last_id>>
    /\ UNCHANGED notStoreVars

\* Mutant of delete_all_records: the WHERE user_id clause is missing.
delete_all_records_everyone(db, table, rows, user_id) ==
    [financial_records |-> {}, record_messages |-> <<>>]

\* delete_all_records: the tables once the records of the user (of everybody
\* when user_id is empty) are deleted, and their messages with them: by
\* the DELETEs per record id on SQLite, by ON DELETE CASCADE on Postgres.
delete_all_records(db, table, rows, user_id) ==
    LET doomed == {row \in table : user_id = "" \/ row.user_id = user_id}
        record_ids == {row.id : row \in doomed}
    IN  [financial_records |-> table \ doomed,
         record_messages |->
             IF user_id = "" /\ db = "sqlite" THEN <<>>
             ELSE SelectSeq(rows, LAMBDA row : row.record_id \notin record_ids)]

\* db.delete_all_records(user_id)
DeleteAllRecords(user_id) ==
    /\ LET after == delete_all_records(backend, financial_records,
                                       record_messages, user_id)
       IN  /\ financial_records' = after.financial_records
           /\ record_messages' = after.record_messages
    /\ outcome' = Outcome("delete_all_records", user_id, TRUE)
    /\ inserted' = {e \in inserted : user_id # "" /\ e.user_id # user_id}
    /\ UNCHANGED <<backend, last_id>>
    /\ UNCHANGED notStoreVars

\* get_database() has connected to one of the two stores, which is empty.
InitStore ==
    /\ BudgetIdle
    /\ ConcIdle
    /\ AdviceIdle
    /\ InputIdle
    /\ backend \in Backends
    /\ financial_records = {}
    /\ record_messages = <<>>
    /\ last_id = 0
    /\ outcome = None
    /\ inserted = {}
    /\ FollowIdle
    /\ RevisionsIdle
    /\ MainIdle
    /\ SessionIdle
    /\ NewsIdle
    /\ DisplayIdle
    /\ FloatIdle

NextStore ==
    \/ \E a \in StoreArgs, user_id \in UserIds : InsertFinancialRecord(a, user_id)
    \/ \E user_id \in UserIds \cup {""} : GetAllRecords(user_id)
    \/ \E record_id \in 1..MaxRecords : DeleteRecord(record_id)
    \/ \E user_id \in UserIds \cup {""} : DeleteAllRecords(user_id)

\* The calls the pages of the app make, each with the id of its user.
NextIsolation ==
    \/ \E a \in StoreArgs, user_id \in UserIds : InsertFinancialRecord(a, user_id)
    \/ \E user_id \in UserIds : GetAllRecords(user_id)
    \/ \E user_id \in UserIds : DeleteAllRecords(user_id)

\* ------------------------------------------------------ the input collector
\* A line is a sequence of characters.  The keys that are typed:
Chars == {" ", "-", ".", "0", "1", "Q", "a", "e", "f", "i", "n", "q"}
Digits == {"0", "1", "2", "3", "4", "5", "6", "7", "8", "9"}

\* The code point of a character (Python compares strings by code points).
ord(c) ==
    CASE c = " " -> 32 [] c = "-" -> 45 [] c = "." -> 46
      [] c = "0" -> 48 [] c = "1" -> 49 [] c = "2" -> 50
      [] c = "3" -> 51 [] c = "4" -> 52 [] c = "5" -> 53
      [] c = "6" -> 54 [] c = "7" -> 55 [] c = "8" -> 56
      [] c = "9" -> 57 [] c = "Q" -> 81
      [] c = "a" -> 97 [] c = "e" -> 101 [] c = "f" -> 102
      [] c = "i" -> 105 [] c = "n" -> 110 [] c = "q" -> 113

\* str.strip()
RECURSIVE lstrip(_)
lstrip(s) == IF s # <<>> /\ Head(s) = " " THEN lstrip(Tail(s)) ELSE s
RECURSIVE rstrip(_)
rstrip(s) ==
    IF s # <<>> /\ s[Len(s)] = " " THEN rstrip(SubSeq(s, 1, Len(s) - 1)) ELSE s
strip(s) == rstrip(lstrip(s))

\* str.lower()
lower(s) == [k \in 1..Len(s) |-> IF s[k] = "Q" THEN "q" ELSE s[k]]

\* a < b on strings
RECURSIVE str_lt(_, _)
str_lt(a, b) ==
    IF b = <<>> THEN FALSE
    ELSE IF a = <<>> THEN TRUE
    ELSE IF a[1] # b[1] THEN ord(a[1]) < ord(b[1])
    ELSE str_lt(Tail(a), Tail(b))

startswith(s, prefix) ==
    /\ Len(s) >= Len(prefix)
    /\ SubSeq(s, 1, Len(prefix)) = prefix

\* The numbers float() and Decimal() give: sign * mant * 10^exp when
\* finite, else an infinity or a NaN.
Finite(sign, mant, exp) ==
    [kind |-> "finite", sign |-> sign, mant |-> mant, exp |-> exp]
Infinite(sign) == [kind |-> "inf", sign |-> sign, mant |-> 0, exp |-> 0]
NaN(sign) == [kind |-> "nan", sign |-> sign, mant |-> 0, exp |-> 0]
ValueError == [exception |-> "ValueError"]

IsDigits(s) == \A k \in 1..Len(s) : s[k] \in Digits
\* The value of a string of digits.
RECURSIVE int_of(_)
int_of(s) ==
    IF s = <<>> THEN 0
    ELSE 10 * int_of(SubSeq(s, 1, Len(s) - 1)) + (ord(s[Len(s)]) - ord("0"))

\* The position of the first c in s, or Len(s) + 1.
RECURSIVE find(_, _)
find(s, c) ==
    IF s = <<>> \/ Head(s) = c THEN 1 ELSE 1 + find(Tail(s), c)

\* An optional sign and what follows it.
signed(s) ==
    IF s # <<>> /\ Head(s) \in {"-", "+"}
    THEN [sign |-> IF Head(s) = "-" THEN 0 - 1 ELSE 1, rest |-> Tail(s)]
    ELSE [sign |-> 1, rest |-> s]

\* float(raw) of a stripped, lower-case string: [sign] digits [. digits]
\* [e [sign] digits] with a digit before or after the point, or [sign]
\* inf, infinity or nan; anything else raises ValueError.
float(raw) ==
    LET sg == signed(raw)
        body == sg.rest
        e == find(body, "e")
        mantissa == SubSeq(body, 1, e - 1)
        has_exp == e <= Len(body)
        ex == signed(SubSeq(body, e + 1, Len(body)))
        dot == find(mantissa, ".")
        int_part == SubSeq(mantissa, 1, dot - 1)
        frac_part == SubSeq(mantissa, dot + 1, Len(mantissa))
    IN  IF body \in {<<"i", "n", "f">>,
                     <<"i", "n", "f", "i", "n", "i", "t", "y">>}
        THEN Infinite(sg.sign)
        ELSE IF body = <<"n", "a", "n">>
        THEN NaN(sg.sign)
        ELSE IF /\ IsDigits(int_part)
                /\ IsDigits(frac_part)
                /\ int_part \o frac_part # <<>>
                /\ has_exp => (ex.rest # <<>> /\ IsDigits(ex.rest))
        THEN Finite(sg.sign, int_of(int_part \o frac_part),
                    (IF has_exp THEN ex.sign * int_of(ex.rest) ELSE 0)
                        - Len(frac_part))
        ELSE ValueError

\* value <= 0 for a Decimal that is not a NaN.
le_zero(value) ==
    IF value.kind = "inf" THEN value.sign < 0
    ELSE value.sign < 0 \/ value.mant = 0

\* What one round of a collector's loop does with the line: return a
\* value, or print a complaint and prompt again.
Return(value) == [do |-> "return", value |-> value]
Continue == [do |-> "continue", value |-> None]

\* Financial_AI_Agent_LLM.py, read_float: the body of the while loop.
read_float(typed) ==
    LET raw == lower(strip(typed))
    IN  IF raw = <<"q">> THEN Return(None)
        ELSE IF raw = <<"0">> THEN Continue
        ELSE IF str_lt(raw, <<"0">>) THEN Continue
        ELSE IF Len(raw) > 1 /\ startswith(raw, <<"0">>)
                /\ ~startswith(raw, <<"0", ".">>)
        THEN Continue
        ELSE IF IsException(float(raw)) THEN Continue
        ELSE Return(Some(float(raw)))

\* core/validator.py, validate_positive_decimal: the body of the while
\* loop (Decimal(raw) reads the same strings as float(raw) here; comparing
\* a NaN raises InvalidOperation, which is caught like a malformed string).
validate_positive_decimal(typed) ==
    LET raw == lower(strip(typed))
        value == float(raw)
    IN  IF raw = <<"q">> THEN Return(None)
        ELSE IF IsException(value) THEN Continue
        ELSE IF value.kind = "nan" THEN Continue
        ELSE IF le_zero(value) THEN Continue
        ELSE Return(Some(value))

\* The user presses a key.
TypeChar(c) ==
    /\ phase = "prompt"
    /\ Len(line) < MaxLineLen
    /\ line' = Append(line, c)
    /\ UNCHANGED <<collector, phase, answer, entered>>
    /\ UNCHANGED notInputVars

\* The user presses Enter: input() returns the line and the loop runs once.
Enter ==
    /\ phase = "prompt"
    /\ LET out == IF collector = "read_float"
                  THEN read_float(line)
                  ELSE validate_positive_decimal(line)
       IN  IF out.do = "return"
           THEN /\ phase' = "returned"
                /\ answer' = out.value
                /\ entered' = line
           ELSE UNCHANGED <<phase, answer, entered>>
    /\ line' = <<>>
    /\ UNCHANGED collector
    /\ UNCHANGED notInputVars

\* main() asks for the next amount (after q it stops).
Prompt ==
    /\ phase = "returned"
    /\ answer # None
    /\ phase' = "prompt"
    /\ answer' = None
    /\ entered' = <<>>
    /\ UNCHANGED <<collector, line>>
    /\ UNCHANGED notInputVars

\* One of the collectors has printed its prompt.
InitInput ==
    /\ BudgetIdle
    /\ ConcIdle
    /\ AdviceIdle
    /\ StoreIdle
    /\ collector \in {"read_float", "validate_positive_decimal"}
    /\ phase = "prompt"
    /\ line = <<>>
    /\ answer = None
    /\ entered = <<>>
    /\ FollowIdle
    /\ RevisionsIdle
    /\ MainIdle
    /\ SessionIdle
    /\ NewsIdle
    /\ DisplayIdle
    /\ FloatIdle

NextInput ==
    \/ \E c \in Chars : TypeChar(c)
    \/ Enter
    \/ Prompt

\* ------------------------------------------------- the follow-up questions
\* Financial_AI_Agent_LLM.py, generate_followup_questions: the lists.
zero_goal_questions ==
    << "Do you want help setting a realistic monthly saving goal?",
       "Do you want a simple plan to start saving (e.g., $50/week)?" >>
negative_remaining_questions ==
    << "Which fixed expense is the biggest (rent, car, food, etc.)?",
       "Do you want me to suggest a target expense limit based on your income?",
       "Do you have any side income you can add?" >>
goal_questions ==
    << "Do you want to cut expenses or increase income to reach this goal?",
       "What is your rent/housing cost? (This usually matters most.)",
       "Should I suggest a revised saving goal based on your current numbers?" >>
low_risk_questions ==
    << "Do you want a 30-day action plan to reach your goal?",
       "Do you want to split your budget into categories (50/30/20 or custom)?",
       "Do you want to estimate how long it takes to build a 3-6 month emergency fund?" >>
default_questions ==
    << "Do you want to run another scenario with different numbers?" >>

\* What the function returns, and the result dict as it leaves it.
Asked(list, r) == [questions |-> list, result |-> r]

\* Mutant of generate_followup_questions: no questions for a Low risk.
generate_followup_questions_no_low(r) ==
    IF "zero_goal" \in r.flags THEN Asked(zero_goal_questions, r)
    ELSE IF "negative_remaining" \in r.flags
    THEN Asked(negative_remaining_questions, r)
    ELSE IF "unrealistic_goal" \in r.flags \/ "goal_too_high" \in r.flags
    THEN Asked(goal_questions, r)
    ELSE Asked(default_questions, r)

generate_followup_questions(r) ==
    IF "zero_goal" \in r.flags THEN Asked(zero_goal_questions, r)
    ELSE IF "negative_remaining" \in r.flags
    THEN Asked(negative_remaining_questions, r)
    ELSE IF "unrealistic_goal" \in r.flags \/ "goal_too_high" \in r.flags
    THEN Asked(goal_questions, r)
    ELSE IF r.risk = Some("Low") THEN Asked(low_risk_questions, r)
    ELSE Asked(default_questions, r)

\* main: questions = generate_followup_questions(results)
GenerateFollowupQuestions ==
    /\ revision = "cli"
    /\ result # None
    /\ LET out == generate_followup_questions(result[1])
       IN  /\ questions' = Some(out.questions)
           /\ result' = Some(out.result)
    /\ assessed' = result
    /\ UNCHANGED <<now, args, revision, raised, earlier>>
    /\ UNCHANGED notBudgetFollowVars

\* The command-line analyze_budget has returned an assessment.
InitFollow ==
    /\ now = 0
    /\ raised = None
    /\ earlier = None
    /\ args \in [income : Amount, fixed_expenses : Amount, saving_goal : Amount]
    /\ revision = "cli"
    /\ result = Some(analyze_budget_cli(args.income, args.fixed_expenses,
                                        args.saving_goal))
    /\ ConcIdle
    /\ AdviceIdle
    /\ StoreIdle
    /\ InputIdle
    /\ FollowIdle
    /\ RevisionsIdle
    /\ MainIdle
    /\ SessionIdle
    /\ NewsIdle
    /\ DisplayIdle
    /\ FloatIdle

NextFollow == GenerateFollowupQuestions

\* ------------------------------------------------------------ src/rules.py
\* The oldest revision: a list of lines, the first of which reports a risk
\* level found from what remains alone (remaining < income * 0.1).
Lines(messages) == [messages |-> messages]

analyze_budget_rules(income, fixed_expenses, saving_goal) ==
    LET remaining == income - fixed_expenses
        risk == IF remaining <= 0 THEN "High"
                ELSE IF 10 * remaining < income THEN "Medium"
                ELSE "Low"
        messages == << <<"Risk Level: ", risk>> >>
        suggestions == << Msg("Suggestions:"),
                          Msg(" keep savings between 20% and 40% of income"),
                          Msg(" Reduce non-essential spending if needed"),
                          Msg(" Build an emergency fund (3-6) months") >>
    IN  IF remaining <= 0
        THEN Lines(messages \o << Msg(" your expenses exceed your income"),
                            Msg(" Action: reduce expenses or increase income.") >>)
        ELSE IF saving_goal > income
        THEN Lines(messages \o << Msg("Your saving goal is unrealistic."),
                            Msg("you are tring to save more than you earn."),
                            Msg("Action: increase income or lower the goal") >>)
        ELSE IF saving_goal > remaining
        THEN Lines(messages \o << Msg("your saving goal is too high"),
                            Msg("Action: lower the saving goal or cut expenses") >>
                      \o suggestions)
        ELSE IF income = 0
        THEN ZeroDivisionError
        ELSE Lines(messages \o << Msg(" your saving goal is achievable."),
                            RatioMsg(savings_ratio(saving_goal, income)) >>
                      \o suggestions)

\* The same arguments are given to each revision.
CallRevisions(income, fixed_expenses, saving_goal) ==
    /\ args' = [income |-> income, fixed_expenses |-> fixed_expenses,
                saving_goal |-> saving_goal]
    /\ reports' = Some(
           [rules |-> analyze_budget_rules(income, fixed_expenses, saving_goal),
            cli |-> analyze_budget_cli(income, fixed_expenses, saving_goal),
            app |-> analyze_budget(income, fixed_expenses, saving_goal, now)])
    /\ UNCHANGED <<now, revision, result, raised, earlier>>
    /\ UNCHANGED notBudgetRevisionVars

InitRevisions ==
    /\ BudgetInit
    /\ ConcIdle
    /\ AdviceIdle
    /\ StoreIdle
    /\ InputIdle
    /\ FollowIdle
    /\ RevisionsIdle
    /\ MainIdle
    /\ SessionIdle
    /\ NewsIdle
    /\ DisplayIdle
    /\ FloatIdle

NextRevisions ==
    \E i \in Amount, f \in Amount, g \in Amount : CallRevisions(i, f, g)

\* ---------------------------------------------------- the command-line loop
\* The lines typed at the prompts of main(): q in two spellings, an empty
\* line, lines read_float rejects, and the amounts 1, 10 and 11.
TypedLines ==
    { <<"q">>, <<" ", "Q">>, <<>>, <<"0">>, <<"-", "1">>, <<"a">>,
      <<"1">>, <<"1", "0">>, <<"1", "1">> }

RECURSIVE pow10(_)
pow10(k) == IF k = 0 THEN 1 ELSE 10 * pow10(k - 1)
\* The amount a typed whole number stands for.
amount_of(value) ==
    IF value.mant = 0 THEN 0 ELSE value.sign * value.mant * pow10(value.exp)

\* choice = input("Press Enter to calculate, or type q to quit:")
start_prompt(typed) ==
    IF lower(strip(typed)) = <<"q">> THEN "break" ELSE "go on"

\* Mutant of followup_choice: q is not tested at the follow-up prompt.
followup_choice_no_quit(typed) ==
    LET choice == lower(strip(typed))
    IN  IF choice = <<"0">> \/ choice = <<>> THEN "continue"
        ELSE "go on"

\* choice = input("Your choice: "): q ends the loop, 0 or an empty line
\* starts a new round, anything else (a valid number or not) goes on to
\* the model call.
followup_choice(typed) ==
    LET choice == lower(strip(typed))
    IN  IF choice = <<"q">> THEN "break"
        ELSE IF choice = <<"0">> \/ choice = <<>> THEN "continue"
        ELSE "go on"

\* What a typed line does to the ghosts: q was typed here or before.
Typed(typed) ==
    LET is_q == lower(strip(typed)) = <<"q">>
    IN  /\ typed_q' = (typed_q \/ is_q)
        /\ calls_at_q' = IF is_q /\ ~typed_q
                         THEN <<analyze_calls, llm_calls>>
                         ELSE calls_at_q

StartPrompt(typed) ==
    /\ main_pc = "start"
    /\ analyze_calls < MaxRounds \/ start_prompt(typed) = "break"
    /\ Typed(typed)
    /\ main_pc' = IF start_prompt(typed) = "break" THEN "ended" ELSE "income"
    /\ amounts' = <<>>
    /\ UNCHANGED <<program, results, analyze_calls, llm_calls, crashed>>
    /\ UNCHANGED notMainVars

\* income / fixed / goal = read_float(...): one typed line
ReadFloat(typed) ==
    /\ main_pc \in {"income", "fixed", "goal"}
    /\ Typed(typed)
    /\ LET out == read_float(typed)
       IN  IF out.do = "continue"
           THEN UNCHANGED <<main_pc, amounts>>
           ELSE IF out.value = None
           THEN main_pc' = "ended" /\ UNCHANGED amounts
           ELSE /\ amounts' = Append(amounts, amount_of(out.value[1]))
                /\ main_pc' = CASE main_pc = "income" -> "fixed"
                           [] main_pc = "fixed" -> "goal"
                           [] main_pc = "goal" -> "analyze"
    /\ UNCHANGED <<program, results, analyze_calls, llm_calls, crashed>>
    /\ UNCHANGED notMainVars

\* results = analyze_budget(income, fixed, goal), printed; then the
\* follow-up questions (always at least one) in Financial_AI_Agent_LLM.py.
AnalyzeBudget ==
    /\ main_pc = "analyze"
    /\ results' = Some(IF program = "main.py"
                       THEN analyze_budget_rules(amounts[1], amounts[2],
                                                 amounts[3])
                       ELSE analyze_budget_cli(amounts[1], amounts[2],
                                               amounts[3]))
    /\ analyze_calls' = analyze_calls + 1
    /\ main_pc' = IF program = "main.py" THEN "llm"
             ELSE IF generate_followup_questions(results'[1]).questions # <<>>
             THEN "choice"
             ELSE "llm"
    /\ UNCHANGED <<program, amounts, llm_calls, typed_q, calls_at_q, crashed>>
    /\ UNCHANGED notMainVars

FollowupChoice(typed) ==
    /\ main_pc = "choice"
    /\ Typed(typed)
    /\ main_pc' = CASE followup_choice(typed) = "break" -> "ended"
               [] followup_choice(typed) = "continue" -> "start"
               [] OTHER -> "llm"
    /\ UNCHANGED <<program, amounts, results, analyze_calls, llm_calls,
                   crashed>>
    /\ UNCHANGED notMainVars

\* response = client.chat.completions.create(...): main.py never defines
\* client; in Financial_AI_Agent_LLM.py an exception of the call ends main().
LlmCall(fails) ==
    /\ main_pc = "llm"
    /\ IF program = "main.py"
       THEN /\ crashed' = Some("NameError")
            /\ main_pc' = "ended"
            /\ UNCHANGED llm_calls
       ELSE /\ llm_calls' = llm_calls + 1
            /\ crashed' = IF fails THEN Some("APIError") ELSE None
            /\ main_pc' = IF fails THEN "ended" ELSE "start"
    /\ UNCHANGED <<program, amounts, results, analyze_calls, typed_q,
                   calls_at_q>>
    /\ UNCHANGED notMainVars

InitMain ==
    /\ BudgetIdle
    /\ ConcIdle
    /\ AdviceIdle
    /\ StoreIdle
    /\ InputIdle
    /\ FollowIdle
    /\ RevisionsIdle
    /\ program \in {"Financial_AI_Agent_LLM.py", "main.py"}
    /\ main_pc = "start"
    /\ amounts = <<>>
    /\ results = None
    /\ analyze_calls = 0
    /\ llm_calls = 0
    /\ typed_q = FALSE
    /\ calls_at_q = <<0, 0>>
    /\ crashed = None
    /\ SessionIdle
    /\ NewsIdle
    /\ DisplayIdle
    /\ FloatIdle

NextMain ==
    \/ \E typed \in TypedLines : StartPrompt(typed)
    \/ \E typed \in TypedLines : ReadFloat(typed)
    \/ AnalyzeBudget
    \/ \E typed \in TypedLines : FollowupChoice(typed)
    \/ \E fails \in BOOLEAN : LlmCall(fails)

\* ------------------------------------------------------------ the session

\* The rows of the users table, registered earlier; usernames are UNIQUE.
Users ==
    { [id |-> 1, username |-> "ann", email |-> "ann@example.org",
       password_hash |-> <<"bcrypt", "pw-ann">>],
      [id |-> 2, username |-> "bob", email |-> "bob@example.org",
       password_hash |-> <<"bcrypt", "pw-bob">>] }

\* What can be typed into the two fields of the login form.
Usernames == {"ann", "bob", "eve", ""}
Passwords == {"pw-ann", "pw-bob", ""}

\* The values uuid.uuid4() can give, as text.
Uuids == {"6f1c0a52", "a2e94d17"}

\* str(n) of a one-digit number
str(n) == <<"0", "1", "2", "3", "4", "5", "6", "7", "8", "9">>[n + 1]

\* bcrypt.checkpw(password, password_hash)
verify_password(password, password_hash) ==
    password_hash = <<"bcrypt", password>>

\* AuthSystem.login_user: success and the user's data, or failure and None.
login_user(username, password) ==
    LET found == {user \in Users : user.username = username}
    IN  IF found = {} THEN <<FALSE, None>>
        ELSE LET user == CHOOSE user \in found : TRUE
             IN  IF ~verify_password(password, user.password_hash)
                 THEN <<FALSE, None>>
                 ELSE <<TRUE, Some([id |-> user.id,
                                    username |-> user.username,
                                    email |-> user.email])>>

\* The login form of show_login_page, submitted.
login_form(ss, username, password) ==
    IF username = "" \/ password = "" THEN ss
    ELSE LET answer_ == login_user(username, password)
         IN  IF answer_[1]
             THEN [ss EXCEPT !.authenticated = TRUE,
                             !.user_data = answer_[2],
                             !.user_id = Some(str(answer_[2][1].id))]
             ELSE ss

\* The button "Continue as Guest (Demo Mode)" of show_login_page
continue_as_guest(ss) ==
    [ss EXCEPT !.authenticated = FALSE, !.guest_mode = TRUE]

\* Mutant of logout_user: the guest flag and the user id are left as they are.
logout_user_keeps_id(ss) ==
    [ss EXCEPT !.authenticated = FALSE, !.user_data = None]

\* logout_user, up to its st.rerun()
logout_user(ss) ==
    [ss EXCEPT !.authenticated = FALSE, !.user_data = None,
               !.user_id = None, !.guest_mode = FALSE]

\* The sidebar's Login button of a guest, up to its st.rerun()
sidebar_login(ss) == [ss EXCEPT !.guest_mode = FALSE]

\* is_authenticated()
is_authenticated(ss) == ss.authenticated \/ ss.guest_mode

\* Mutant of get_or_create_user_id: an id is generated on every call.
get_or_create_user_id_anew(ss, uuid4) == [ss EXCEPT !.user_id = Some(uuid4)]

\* get_or_create_user_id: the session after the call, whose user_id is
\* what the call returns.
get_or_create_user_id(ss, uuid4) ==
    IF ss.user_id = None THEN [ss EXCEPT !.user_id = Some(uuid4)] ELSE ss

\* A run of app.py from its top to line 113: it stops at the login page, or
\* goes on to the sidebar and the pages with the user id it computed.
script_top(ss, uuid4) ==
    IF ~is_authenticated(ss)
    THEN [session_state |-> ss, run |-> [at |-> "login_page", user_id |-> None]]
    ELSE LET after == IF ss.authenticated THEN ss
                      ELSE get_or_create_user_id(ss, uuid4)
         IN  [session_state |-> after,
              run |-> [at |-> "pages", user_id |-> after.user_id]]

\* The session a handler leaves behind is picked up by the run that its
\* st.rerun(), or the next interaction, starts.
Rerun(ss, uuid4) ==
    /\ session_state' = script_top(ss, uuid4).session_state
    /\ run' = script_top(ss, uuid4).run
    /\ UNCHANGED notSessionVars

\* The user id the calls of the store are made with; None, like the empty
\* string, counts as no user id there ("if user_id:").
page_user_id == IF run.user_id = None THEN "" ELSE run.user_id[1]

\* A widget of a page is used: the script runs again.
Interact(uuid4) ==
    /\ run.at = "pages"
    /\ Rerun(session_state, uuid4)
    /\ UNCHANGED logged_out

\* The login form is submitted.
LoginForm(username, password, uuid4) ==
    /\ run.at = "login_page"
    /\ LET after == login_form(session_state, username, password)
       IN  /\ Rerun(after, uuid4)
           /\ logged_out' = (logged_out /\ ~after.authenticated)

\* "Continue as Guest (Demo Mode)" is pressed.
ContinueAsGuest(uuid4) ==
    /\ run.at = "login_page"
    /\ Rerun(continue_as_guest(session_state), uuid4)
    /\ logged_out' = FALSE

\* The sidebar's Logout button, which an authenticated session shows.
SidebarLogout(uuid4) ==
    /\ run.at = "pages"
    /\ session_state.authenticated
    /\ Rerun(logout_user(session_state), uuid4)
    /\ logged_out' = TRUE

\* The sidebar's Login button, which a guest session shows.
SidebarLogin(uuid4) ==
    /\ run.at = "pages"
    /\ ~session_state.authenticated
    /\ Rerun(sidebar_login(session_state), uuid4)
    /\ UNCHANGED logged_out

\* The budgets the pages of the session assess and save.
SessionArgs == {a \in StoreArgs : a.income = 3}

\* The sidebar and the pages read the records of the user.
PageGetAllRecords ==
    /\ run.at = "pages"
    /\ GetAllRecords(page_user_id)

\* The Budget Analysis page saves an assessment.
PageInsertFinancialRecord(a) ==
    /\ run.at = "pages"
    /\ InsertFinancialRecord(a, page_user_id)

\* "Clear All Data" of the Historical Data and Settings pages
PageDeleteAllRecords ==
    /\ run.at = "pages"
    /\ DeleteAllRecords(page_user_id)

\* A browser opens the app on an empty store: the first run shows the login
\* page.
InitSession ==
    /\ BudgetIdle
    /\ ConcIdle
    /\ AdviceIdle
    /\ InputIdle
    /\ FollowIdle
    /\ RevisionsIdle
    /\ MainIdle
    /\ backend \in Backends
    /\ financial_records = {}
    /\ record_messages = <<>>
    /\ last_id = 0
    /\ outcome = None
    /\ inserted = {}
    /\ session_state = fresh_session
    /\ run = [at |-> "login_page", user_id |-> None]
    /\ logged_out = FALSE
    /\ NewsIdle
    /\ DisplayIdle
    /\ FloatIdle

NextSession ==
    \/ \E uuid4 \in Uuids : Interact(uuid4)
    \/ \E username \in Usernames, password \in Passwords, uuid4 \in Uuids :
           LoginForm(username, password, uuid4)
    \/ \E uuid4 \in Uuids : ContinueAsGuest(uuid4)
    \/ \E uuid4 \in Uuids : SidebarLogout(uuid4)
    \/ \E uuid4 \in Uuids : SidebarLogin(uuid4)
    \/ PageGetAllRecords
    \/ \E a \in SessionArgs : PageInsertFinancialRecord(a)
    \/ PageDeleteAllRecords

\* ---------------------------------------------------------- the news cache

\* The stock symbols and the numbers of days news is asked for.
Symbols == {"AAPL", "TSLA"}
DaysBack == {1, 7}

\* What fetcher.get_company_news can give: a list of news, which may be
\* empty, or the exception of a failed request.
NewsLists == {<<>>, <<"headline">>}
FetcherOutcomes ==
    {[news |-> list] : list \in NewsLists} \cup {[exception |-> "Exception"]}

\* f"{symbol}_{days_back}"
cache_key(symbol, days_back) == <<symbol, "_", str(days_back)>>

\* self.cache is a dict: at most one entry per key.
keys(entries) == {entry.key : entry \in entries}
entry_of(entries, key) == CHOOSE entry \in entries : entry.key = key

\* del self.cache[key]
without_entry(entries, key) == {entry \in entries : entry.key # key}

\* self.cache with self.cache[key] = (value, timestamp)
with_entry(entries, key, value, timestamp) ==
    without_entry(entries, key)
        \cup {[key |-> key, data |-> value, timestamp |-> timestamp]}

\* NewsCache.get: the value returned and the cache afterwards.
NewsCache_get(self, key, t) ==
    IF key \in keys(self.cache)
    THEN IF t - entry_of(self.cache, key).timestamp < self.ttl
         THEN [value |-> Some(entry_of(self.cache, key).data), self |-> self]
         ELSE [value |-> None,
               self |-> [self EXCEPT !.cache = without_entry(@, key)]]
    ELSE [value |-> None, self |-> self]

\* NewsCache.set
NewsCache_set(self, key, value, t) ==
    [self EXCEPT !.cache = with_entry(@, key, value, t)]

\* "if cached:" of a list or None
truthy(value) == value # None /\ value[1] # <<>>

\* get_news_with_cache(fetcher, symbol, days_back), when the fetcher, if it
\* is called, gives fetcher_outcome
GetNewsWithCache(symbol, days_back, fetcher_outcome) ==
    LET key == cache_key(symbol, days_back)
        got == NewsCache_get(news_cache, key, clock)
    IN  /\ cached' = Some([key |-> key, value |-> got.value, time |-> clock,
                           before |-> news_cache.cache])
        /\ IF truthy(got.value)
           THEN /\ news' = got.value
                /\ news_cache' = got.self
                /\ UNCHANGED fetched
           ELSE /\ Len(fetched) < MaxFetches
                /\ fetched' = Append(fetched, [key |-> key, time |-> clock,
                                            gave |-> fetcher_outcome])
                /\ IF IsException(fetcher_outcome)
                   THEN /\ news' = None
                        /\ news_cache' = got.self
                   ELSE /\ news' = Some(fetcher_outcome.news)
                        /\ news_cache' =
                               NewsCache_set(got.self, key,
                                             fetcher_outcome.news, clock)
        /\ UNCHANGED clock
        /\ UNCHANGED notNewsVars

\* A second passes on time.time().
SecondPasses ==
    /\ clock < MaxClock
    /\ clock' = clock + 1
    /\ UNCHANGED <<news_cache, fetched, cached, news>>
    /\ UNCHANGED notNewsVars

\* The module is imported: news_cache = NewsCache().
InitNews ==
    /\ BudgetIdle
    /\ ConcIdle
    /\ AdviceIdle
    /\ StoreIdle
    /\ InputIdle
    /\ FollowIdle
    /\ RevisionsIdle
    /\ MainIdle
    /\ SessionIdle
    /\ \E ttl_seconds \in 1..MaxTtl : news_cache = NewsCache(ttl_seconds)
    /\ clock = 0
    /\ fetched = <<>>
    /\ cached = None
    /\ news = None
    /\ DisplayIdle
    /\ FloatIdle

NextNews ==
    \/ \E symbol \in Symbols, days_back \in DaysBack,
          fetcher_outcome \in FetcherOutcomes :
           GetNewsWithCache(symbol, days_back, fetcher_outcome)
    \/ SecondPasses

\* ------------------------------------------------------ displaying a result

\* What formatting None with a format specification raises.
TypeError == [exception |-> "TypeError"]

\* f"{value:.1f}%": the number in tenths (of the ratio kept in hundredths),
\* or TypeError for None.
format_1f(value) ==
    IF value = None THEN TypeError
    ELSE [text |-> <<RoundHalfEven(value[1], 10), ".1f", "%">>]

\* result.get(key, default) of a dict that has the key: the value stored
\* under it, also when that value is None.
dict_get(r, value, default) == value

\* The box of the dashboard's Analysis Results, chosen by the risk.
risk_box(risk_level) ==
    IF risk_level = Some("Low") THEN "Good Financial Health"
    ELSE IF risk_level = Some("Medium") THEN "Moderate Risk"
    ELSE "High Risk"

\* The dashboard's Analysis Results: four metrics and the box of messages.
dashboard(r) ==
    [page |-> "Dashboard", risk_metric |-> r.risk,
     box |-> Some(risk_box(dict_get(r, r.risk, Some("Unknown")))),
     ratio_text |-> None, messages |-> r.messages]

\* The Overview tab of Budget Analysis: the Financial Summary, whose last
\* metric is the savings ratio, then the Risk Assessment and the messages.
overview(r) ==
    LET ratio_text == format_1f(dict_get(r, r.ratio, Some(0)))
    IN  IF IsException(ratio_text) THEN ratio_text
        ELSE [page |-> "Budget Analysis", risk_metric |-> r.risk,
              box |-> None, ratio_text |-> Some(ratio_text.text),
              messages |-> r.messages]

\* The Dashboard page runs with a result in current_month_data.
ShowDashboard ==
    /\ result # None
    /\ shown' = Some(dashboard(result[1]))
    /\ UNCHANGED notDisplayVars

\* The Budget Analysis page runs with a result in current_month_data.
ShowOverview ==
    /\ result # None
    /\ shown' = Some(overview(result[1]))
    /\ UNCHANGED notDisplayVars

\* analyze_budget of the app has returned the result the pages display.
InitDisplay ==
    /\ now = 0
    /\ raised = None
    /\ earlier = None
    /\ args \in [income : Amount, fixed_expenses : Amount, saving_goal : Amount]
    /\ revision = "app"
    /\ result = Some(analyze_budget(args.income, args.fixed_expenses,
                                    args.saving_goal, now))
    /\ ConcIdle
    /\ AdviceIdle
    /\ StoreIdle
    /\ InputIdle
    /\ FollowIdle
    /\ RevisionsIdle
    /\ MainIdle
    /\ SessionIdle
    /\ NewsIdle
    /\ DisplayIdle
    /\ FloatIdle

NextDisplay ==
    \/ ShowDashboard
    \/ ShowOverview

\* ----------------------------------------- analyze_budget on Python floats

\* The lines typed for an amount: whole numbers, and the two words float()
\* also reads.
AmountLines ==
    {<<str(n)>> : n \in 1..MaxAmount} \cup {<<"i", "n", "f">>, <<"n", "a", "n">>}

\* A float as arithmetic sees it: a (whole) number, an infinity with its
\* sign, or nan.
Number(n) == [kind |-> "finite", n |-> n]
Inf(sign) == [kind |-> "inf", n |-> sign]
Nan == [kind |-> "nan", n |-> 0]
number_of(value) ==
    IF value.kind = "finite" THEN Number(amount_of(value))
    ELSE IF value.kind = "inf" THEN Inf(value.sign)
    ELSE Nan

\* x <= 0: false for nan
float_le_zero(x) ==
    \/ x.kind = "finite" /\ x.n <= 0
    \/ x.kind = "inf" /\ x.n < 0

\* a > b: false when either is nan
float_gt(a, b) ==
    IF a.kind = "nan" \/ b.kind = "nan" THEN FALSE
    ELSE IF a.kind = "finite" /\ b.kind = "finite" THEN a.n > b.n
    ELSE IF a.kind = "inf" THEN a.n > 0 /\ ~(b.kind = "inf" /\ b.n > 0)
    ELSE b.n < 0

\* a - b
float_sub(a, b) ==
    IF a.kind = "nan" \/ b.kind = "nan" THEN Nan
    ELSE IF a.kind = "finite" /\ b.kind = "finite" THEN Number(a.n - b.n)
    ELSE IF a.kind = "inf" /\ b.kind = "inf"
    THEN IF a.n = b.n THEN Nan ELSE a
    ELSE IF a.kind = "inf" THEN a
    ELSE Inf(0 - b.n)

\* round((saving_goal / income) * 100, 2), a finite result in hundredths
float_ratio(saving_goal, income) ==
    IF saving_goal.kind = "nan" \/ income.kind = "nan" THEN Nan
    ELSE IF income.kind = "inf"
    THEN IF saving_goal.kind = "inf" THEN Nan ELSE Number(0)
    ELSE IF income.n = 0 THEN ZeroDivisionError
    ELSE IF saving_goal.kind = "inf"
    THEN Inf(IF income.n > 0 THEN saving_goal.n ELSE 0 - saving_goal.n)
    ELSE Number(savings_ratio(saving_goal.n, income.n))

\* Financial_AI_Agent_LLM.py, analyze_budget, on the floats read_float
\* returns.
analyze_budget_floats(income, fixed_expenses, saving_goal) ==
    LET remaining == float_sub(income, fixed_expenses)
        blank  == [income    |-> income,
                   fixed     |-> fixed_expenses,
                   goal      |-> saving_goal,
                   remaining |-> remaining,
                   risk      |-> None,
                   ratio     |-> None,
                   messages  |-> <<>>,
                   flags     |-> {}]
        verdict == IF float_gt(saving_goal, remaining)
                   THEN AddFlagMsg(SetRisk(blank, "Medium"), "goal_too_high",
                            "Your saving goal is too high based on current expenses.")
                   ELSE [SetRisk(blank, "Low") EXCEPT !.messages =
                            Append(@, Msg("Your saving goal is achievable."))]
        ratio == float_ratio(saving_goal, income)
    IN  IF float_le_zero(income)
        THEN AddFlagMsg(blank, "invalid_income", "Income must be greater than 0.")
        ELSE IF float_le_zero(saving_goal)
        THEN AddFlagMsg(blank, "zero_goal",
                 "Saving goal is 0. You may want to set a small goal to start.")
        ELSE IF float_le_zero(remaining)
        THEN AddFlagMsg(SetRisk(blank, "High"), "negative_remaining",
                 "Warning: Your expenses exceed your income.")
        ELSE IF float_gt(saving_goal, income)
        THEN AddFlagMsg(SetRisk(blank, "High"), "unrealistic_goal",
                 "Your saving goal is unrealistic (greater than income).")
        ELSE IF IsException(ratio)
        THEN ratio
        ELSE [verdict EXCEPT
                 !.ratio = Some(ratio),
                 !.messages = @ \o
                     << RatioMsg(ratio),
                        Msg("Suggestions:"),
                        Msg("- Keep savings between 20% and 40% of income (if possible)."),
                        Msg("- Reduce non-essential spending if needed."),
                        Msg("- Build an emergency fund (3-6 months).") >>]

\* read_float is answered with a line for the next amount.
EnterAmount(typed) ==
    /\ Len(floats) < 3
    /\ assessment = None
    /\ LET out == read_float(typed)
       IN  /\ out.do = "return"
           /\ out.value # None
           /\ floats' = Append(floats, number_of(out.value[1]))
    /\ UNCHANGED assessment
    /\ UNCHANGED notFloatVars

\* results = analyze_budget(income, fixed, goal)
AssessFloats ==
    /\ Len(floats) = 3
    /\ assessment = None
    /\ assessment' = Some(analyze_budget_floats(floats[1], floats[2], floats[3]))
    /\ UNCHANGED floats
    /\ UNCHANGED notFloatVars

\* The loop starts its next round.
NextRound ==
    /\ assessment # None
    /\ floats' = <<>>
    /\ assessment' = None
    /\ UNCHANGED notFloatVars

\* The loop is about to read the income.
InitFloats ==
    /\ BudgetIdle
    /\ ConcIdle
    /\ AdviceIdle
    /\ StoreIdle
    /\ InputIdle
    /\ FollowIdle
    /\ RevisionsIdle
    /\ MainIdle
    /\ SessionIdle
    /\ NewsIdle
    /\ DisplayIdle
    /\ floats = <<>>
    /\ assessment = None

NextFloats ==
    \/ \E typed \in AmountLines : EnterAmount(typed)
    \/ AssessFloats
    \/ NextRound

Init ==
    /\ BudgetInit
    /\ ConcIdle
    /\ AdviceIdle
    /\ StoreIdle
    /\ InputIdle
    /\ FollowIdle
    /\ RevisionsIdle
    /\ MainIdle
    /\ SessionIdle
    /\ NewsIdle
    /\ DisplayIdle
    /\ FloatIdle

Next ==
    \/ \E i \in Amount, f \in Amount, g \in Amount : CallApp(i, f, g)
    \/ \E i \in Amount, f \in Amount, g \in Amount : CallCli(i, f, g)
    \/ Tick

Spec == Init /\ [][Next]_vars

SpecConc == InitConc /\ [][NextConc]_vars

SpecAdvice == InitAdvice /\ [][NextAdvice]_vars

SpecStore == InitStore /\ [][NextStore]_vars

SpecInput == InitInput /\ [][NextInput]_vars

SpecFollow == InitFollow /\ [][NextFollow]_vars

SpecRevisions == InitRevisions /\ [][NextRevisions]_vars

SpecMain == InitMain /\ [][NextMain]_vars

SpecIsolation == InitStore /\ [][NextIsolation]_vars

SpecSession == InitSession /\ [][NextSession]_vars

SpecNews == InitNews /\ [][NextNews]_vars

SpecDisplay == InitDisplay /\ [][NextDisplay]_vars

SpecFloats == InitFloats /\ [][NextFloats]_vars

\* ------------------------------------------------------- reading a result
Returned == result # None /\ raised = None
\* The dict the latest call returned (when Returned).
res == result[1]
\* The arguments of that call.
in_income == args.income
in_fixed_expenses == args.fixed_expenses
in_saving_goal == args.saving_goal
in_remaining == args.income - args.fixed_expenses

\* v is n / d rounded to the nearest integer, a tie going to the even one.
IsRounded(v, n, d) ==
    /\ 2 * Abs(v * d - n) <= Abs(d)
    /\ 2 * Abs(v * d - n) = Abs(d) => v % 2 = 0

\* The ratio of the result is present and is round(goal / income * 100, 2).
RatioComputed ==
    /\ res.ratio # None
    /\ IsRounded(res.ratio[1], in_saving_goal * 10000, in_income)

\* The flag of the first condition that matches, in the order invalid_income,
\* zero_goal, negative_remaining, unrealistic_goal, goal_too_high.
FirstMatch ==
    IF in_income <= 0 THEN {"invalid_income"}
    ELSE IF in_saving_goal <= 0 THEN {"zero_goal"}
    ELSE IF in_remaining <= 0 THEN {"negative_remaining"}
    ELSE IF in_saving_goal > in_income THEN {"unrealistic_goal"}
    ELSE IF in_saving_goal > in_remaining THEN {"goal_too_high"}
    ELSE {}

\* ----------------------------------------------------------------- claims

\* C1: analyze_budget is a strict first-match decision tree: every result
\* carries at most one flag, and it is the flag of the first condition that
\* matches in the order invalid_income, zero_goal, negative_remaining,
\* unrealistic_goal, goal_too_high; later conditions that hold add nothing.
C1_FirstMatchOnly ==
    Returned => /\ Cardinality(res.flags) <= 1
                /\ res.flags = FirstMatch

\* income <= 0 and saving_goal <= 0 both hold and only invalid_income is set.
C1_Witness ==
    /\ Returned
    /\ in_income <= 0
    /\ in_saving_goal <= 0
    /\ res.flags = {"invalid_income"}

\* C2: for all inputs with income <= 0 the result's flags contain
\* invalid_income, its risk is unset and its savings ratio is absent.
C2_InvalidIncome ==
    (Returned /\ in_income <= 0) =>
        /\ "invalid_income" \in res.flags
        /\ res.risk = None
        /\ res.ratio = None

\* income = 0 with a positive goal (the spec's scenario income=0, goal=100).
C2_Witness ==
    /\ Returned
    /\ in_income = 0
    /\ in_fixed_expenses = 0
    /\ in_saving_goal > 0
    /\ "invalid_income" \in res.flags
    /\ res.ratio = None

\* C3: for all inputs with income > 0 and saving_goal <= 0, whatever the
\* fixed expenses, the result's flags contain zero_goal, its risk is unset
\* and its savings ratio is absent.
C3_ZeroGoal ==
    (Returned /\ in_income > 0 /\ in_saving_goal <= 0) =>
        /\ "zero_goal" \in res.flags
        /\ res.risk = None
        /\ res.ratio = None

\* A zero goal while the fixed expenses reach the income.
C3_Witness ==
    /\ Returned
    /\ in_income > 0
    /\ in_saving_goal = 0
    /\ in_fixed_expenses >= in_income
    /\ "zero_goal" \in res.flags
    /\ res.risk = None

\* C4: for all inputs with income > 0, saving_goal > 0 and
\* fixed_expenses >= income the result has risk High, flag
\* negative_remaining and no savings ratio.
C4_NegativeRemaining ==
    (Returned /\ in_income > 0 /\ in_saving_goal > 0
              /\ in_fixed_expenses >= in_income) =>
        /\ res.risk = Some("High")
        /\ "negative_remaining" \in res.flags
        /\ res.ratio = None

\* The boundary fixed_expenses = income, where remaining is exactly 0.
C4_Witness ==
    /\ Returned
    /\ in_income > 0
    /\ in_saving_goal > 0
    /\ in_fixed_expenses = in_income
    /\ res.remaining = 0
    /\ res.risk = Some("High")
    /\ "negative_remaining" \in res.flags

\* C5: for all inputs with income > 0, saving_goal > 0,
\* fixed_expenses < income and saving_goal > income the result has risk
\* High, flag unrealistic_goal and no savings ratio, and is never
\* Medium / goal_too_high.
C5_UnrealisticGoal ==
    (Returned /\ in_income > 0 /\ in_saving_goal > 0
              /\ in_fixed_expenses < in_income
              /\ in_saving_goal > in_income) =>
        /\ res.risk = Some("High")
        /\ "unrealistic_goal" \in res.flags
        /\ "goal_too_high" \notin res.flags
        /\ res.ratio = None

\* The goal exceeds the income, hence also what remains of it.
C5_Witness ==
    /\ Returned
    /\ in_income > 0
    /\ in_fixed_expenses >= 0
    /\ in_fixed_expenses < in_income
    /\ in_saving_goal > in_income
    /\ in_saving_goal > in_remaining
    /\ res.flags = {"unrealistic_goal"}
    /\ res.risk = Some("High")

\* C6: for all valid inputs (income > 0, fixed_expenses >= 0) with
\* 0 < saving_goal <= remaining, the boundary saving_goal = remaining
\* included, the result has risk Low, no flag, and a savings ratio equal to
\* round(saving_goal / income * 100, 2).
C6_Achievable ==
    (Returned /\ in_income > 0 /\ in_fixed_expenses >= 0
              /\ 0 < in_saving_goal /\ in_saving_goal <= in_remaining) =>
        /\ res.risk = Some("Low")
        /\ res.flags = {}
        /\ RatioComputed

\* The boundary saving_goal = remaining, with a ratio that had to be rounded.
C6_Witness ==
    /\ Returned
    /\ in_income > 0
    /\ in_fixed_expenses > 0
    /\ in_saving_goal = in_remaining
    /\ res.risk = Some("Low")
    /\ res.ratio # None
    /\ res.ratio[1] * in_income # in_saving_goal * 10000

\* C7, as stated: for all valid inputs (income > 0, fixed_expenses >= 0)
\* with remaining < saving_goal <= income the result has risk Medium, flag
\* goal_too_high and a savings ratio round(saving_goal / income * 100, 2).
C7_AsStated ==
    (Returned /\ in_income > 0 /\ in_fixed_expenses >= 0
              /\ in_remaining < in_saving_goal
              /\ in_saving_goal <= in_income) =>
        /\ res.risk = Some("Medium")
        /\ "goal_too_high" \in res.flags
        /\ RatioComputed

\* C7, amended: for all valid inputs with 0 < remaining < saving_goal <=
\* income the result has risk Medium, flag goal_too_high and a savings
\* ratio round(saving_goal / income * 100, 2).
C7_GoalTooHigh ==
    (Returned /\ in_income > 0 /\ in_fixed_expenses >= 0
              /\ 0 < in_remaining
              /\ in_remaining < in_saving_goal
              /\ in_saving_goal <= in_income) =>
        /\ res.risk = Some("Medium")
        /\ "goal_too_high" \in res.flags
        /\ RatioComputed

\* A goal between what remains and the income.
C7_Witness ==
    /\ Returned
    /\ in_income > 0
    /\ in_fixed_expenses >= 0
    /\ 0 < in_remaining
    /\ in_remaining < in_saving_goal
    /\ in_saving_goal < in_income
    /\ res.risk = Some("Medium")
    /\ res.flags = {"goal_too_high"}
    /\ res.ratio # None

\* C8: the savings ratio is present if and only if the risk is Low or
\* Medium, equivalently if and only if income > 0, saving_goal > 0,
\* remaining > 0 and saving_goal <= income; it is absent in every
\* invalid_income, zero_goal, negative_remaining and unrealistic_goal result.
C8_RatioIffLowOrMedium ==
    Returned =>
        /\ res.ratio # None <=> res.risk \in {Some("Low"), Some("Medium")}
        /\ res.ratio # None <=> /\ in_income > 0
                               /\ in_saving_goal > 0
                               /\ in_remaining > 0
                               /\ in_saving_goal <= in_income
        /\ res.flags \cap {"invalid_income", "zero_goal", "negative_remaining",
                           "unrealistic_goal"} # {} => res.ratio = None

\* Every earlier check passed once: the ratio is there although a flag is set.
C8_Witness ==
    /\ Returned
    /\ res.ratio # None
    /\ res.flags # {}
    /\ res.risk = Some("Medium")

\* C9, as stated: the savings ratio is present only when
\* saving_goal <= remaining and income > 0.
C9_AsStated ==
    (Returned /\ res.ratio # None) =>
        /\ in_saving_goal <= in_remaining
        /\ in_income > 0

\* C9, amended: the savings ratio is present only when saving_goal <= income
\* and income > 0; saving_goal <= remaining holds of the results with a
\* ratio that are Low, not of those that are Medium.
C9_RatioOnlyWhenMeaningful ==
    (Returned /\ res.ratio # None) =>
        /\ in_saving_goal <= in_income
        /\ in_income > 0
        /\ in_saving_goal <= in_remaining <=> res.risk = Some("Low")

\* A ratio is returned for a goal above what remains.
C9_Witness ==
    /\ Returned
    /\ res.ratio # None
    /\ in_saving_goal > in_remaining
    /\ in_saving_goal <= in_income

\* C10: flags and risk are consistent: negative_remaining implies High,
\* unrealistic_goal implies High, goal_too_high implies Medium, no flag with
\* a ratio present implies Low, and the risk is unset exactly when the flag
\* is invalid_income or zero_goal.
C10_FlagsRiskConsistent ==
    Returned =>
        /\ "negative_remaining" \in res.flags => res.risk = Some("High")
        /\ "unrealistic_goal" \in res.flags => res.risk = Some("High")
        /\ "goal_too_high" \in res.flags => res.risk = Some("Medium")
        /\ (res.flags = {} /\ res.ratio # None) => res.risk = Some("Low")
        /\ res.risk = None <=>
               res.flags \cap {"invalid_income", "zero_goal"} # {}

\* Expenses above the income: the flag comes with risk High.
C10_Witness ==
    /\ Returned
    /\ in_remaining < 0
    /\ res.flags = {"negative_remaining"}
    /\ res.risk = Some("High")


\* C11: every flag is sound: invalid_income only if income <= 0, zero_goal
\* only if saving_goal <= 0, negative_remaining only if fixed_expenses >=
\* income, unrealistic_goal only if saving_goal > income, goal_too_high only
\* if remaining < saving_goal <= income.
C11_FlagsSound ==
    Returned =>
        /\ "invalid_income" \in res.flags => in_income <= 0
        /\ "zero_goal" \in res.flags => in_saving_goal <= 0
        /\ "negative_remaining" \in res.flags => in_fixed_expenses >= in_income
        /\ "unrealistic_goal" \in res.flags => in_saving_goal > in_income
        /\ "goal_too_high" \in res.flags =>
               /\ in_remaining < in_saving_goal
               /\ in_saving_goal <= in_income

\* goal_too_high at the upper end of its range, saving_goal = income.
C11_Witness ==
    /\ Returned
    /\ "goal_too_high" \in res.flags
    /\ in_saving_goal = in_income
    /\ in_remaining < in_saving_goal

\* C12: in every result, the early-return ones included, remaining equals
\* income - fixed_expenses exactly and the income, fixed and goal fields
\* equal the inputs.
C12_FieldsAreInputs ==
    Returned =>
        /\ res.remaining = in_income - in_fixed_expenses
        /\ res.income = in_income
        /\ res.fixed = in_fixed_expenses
        /\ res.goal = in_saving_goal

\* An early-return result whose remaining is not 0.
C12_Witness ==
    /\ Returned
    /\ "zero_goal" \in res.flags
    /\ in_income # in_fixed_expenses
    /\ res.remaining = in_income - in_fixed_expenses

\* C13: analyze_budget is total: every call, with positive, zero or negative
\* numbers, returns a result and raises nothing; the division is never
\* evaluated with income = 0.
C13_Total ==
    revision # "none" => /\ raised = None
                         /\ result # None

\* income = 0 with money remaining and a positive goal: only the checks
\* before the division keep it from being reached.
C13_Witness ==
    /\ Returned
    /\ in_income = 0
    /\ in_remaining > 0
    /\ in_saving_goal > 0
    /\ res.ratio = None

\* The result without its timestamp.
Classification(r) ==
    [income |-> r.income, fixed |-> r.fixed, goal |-> r.goal,
     remaining |-> r.remaining, risk |-> r.risk, ratio |-> r.ratio,
     messages |-> r.messages, flags |-> r.flags]

\* C14, as stated: two calls with identical inputs, at any two times, agree
\* on every field of the result.
C14_AsStated ==
    (Returned /\ earlier # None) => res = earlier[1]

\* C14, amended: two calls with identical inputs, at any two times, agree on
\* every field of the result other than the timestamp: the time of
\* evaluation never influences risk, ratio, flags, remaining or messages.
C14_SameClassification ==
    (Returned /\ earlier # None) =>
        Classification(res) = Classification(earlier[1])

\* The same arguments evaluated at two different times.
C14_Witness ==
    /\ Returned
    /\ earlier # None
    /\ revision = "app"
    /\ res.timestamp # earlier[1].timestamp
    /\ res.ratio # None

\* The lines of result["messages"], by kind.
VerdictLines ==
    { Msg("Your saving goal is achievable."),
      Msg("Your saving goal is too high based on current expenses.") }
SuggestionLines ==
    { Msg("Suggestions:"),
      Msg("Keep savings between 20% and 40% of income"),
      Msg("Reduce non-essential spending if needed"),
      Msg("Build an emergency fund (3-6 months)"),
      Msg("- Keep savings between 20% and 40% of income (if possible)."),
      Msg("- Reduce non-essential spending if needed."),
      Msg("- Build an emergency fund (3-6 months).") }
IsRatioLine(m) == Len(m) = 3 /\ m[1] = "Recommended saving ratio: "

\* C15: after the Low or Medium verdict, and only then, the messages are the
\* verdict line, then the ratio line, then the suggestion lines, in that
\* order; the other results hold no ratio line and no suggestion line.
C15_MessageOrder ==
    Returned =>
        IF res.risk \in {Some("Low"), Some("Medium")}
        THEN /\ Len(res.messages) = 6
             /\ res.messages[1] \in VerdictLines
             /\ res.messages[2] = RatioMsg(res.ratio[1])
             /\ \A k \in 3..6 : res.messages[k] \in SuggestionLines
             /\ res.messages[3] = Msg("Suggestions:")
        ELSE /\ Len(res.messages) >= 1
             /\ \A k \in 1..Len(res.messages) :
                    /\ ~IsRatioLine(res.messages[k])
                    /\ res.messages[k] \notin SuggestionLines

\* A Medium result: warning, ratio line, suggestions.
C15_Witness ==
    /\ Returned
    /\ res.risk = Some("Medium")
    /\ Len(res.messages) = 6
    /\ IsRatioLine(res.messages[2])
    /\ res.messages[6] \in SuggestionLines

\* The corrective-action lines (the ones src/rules.py prints).
CorrectiveAction(flag) ==
    CASE flag = "negative_remaining" ->
             Msg(" Action: reduce expenses or increase income.")
      [] flag = "unrealistic_goal" ->
             Msg("Action: increase income or lower the goal")
      [] flag = "goal_too_high" ->
             Msg("Action: lower the saving goal or cut expenses")

\* C16: every result with a verdict of negative_remaining, unrealistic_goal
\* or goal_too_high contains, besides the verdict message, the
\* corrective-action message of that verdict.
C16_CorrectiveAction ==
    Returned =>
        \A flag \in res.flags \cap {"negative_remaining", "unrealistic_goal",
                                    "goal_too_high"} :
            /\ Len(res.messages) >= 2
            /\ \E k \in 1..Len(res.messages) :
                   res.messages[k] = CorrectiveAction(flag)


\* The result dict of thread t with its list and its set read from the heap.
Deref(t) ==
    [frames[t].result EXCEPT !.messages = lists[@], !.flags = sets[@]]
Allocated(t) == frames[t].pc \notin {"idle", "start"}

\* C17: concurrent calls are independent: under every interleaving each call
\* returns the result it returns when run alone, and no two results share
\* their messages list or their flag set.
C17_Independent ==
    /\ \A t \in Threads :
           frames[t].pc = "done" =>
               Deref(t) = analyze_budget(frames[t].income,
                                         frames[t].fixed_expenses,
                                         frames[t].saving_goal,
                                         frames[t].result.timestamp)
    /\ \A t \in Threads, u \in Threads :
           (t # u /\ Allocated(t) /\ Allocated(u)) =>
               /\ frames[t].result.messages # frames[u].result.messages
               /\ frames[t].result.flags # frames[u].result.flags

\* Thread 1 started after thread 2 and has returned a Medium result while
\* thread 2 is still appending its suggestions.
C17_Witness ==
    /\ frames[1].pc = "done"
    /\ frames[1].result.risk = Some("Medium")
    /\ frames[2].pc = "general_suggestions"
    /\ frames[2].suggested = 2
    /\ frames[2].result.messages < frames[1].result.messages
    /\ Len(lists[frames[1].result.messages]) = 6


\* C18: when the text-generation service fails, the advisory step returns a
\* canned fallback text instead of raising and leaves the assessment as it
\* was given, in get_ai_analysis and in the command-line loop alike.
C18_DegradesToFallback ==
    given # None =>
        /\ llm_raised = None
        /\ advice # None
        /\ result = given[1]


\* The fields of an assessment that the store is to hand back.
SameAssessment(record, r) ==
    /\ record.income = r.income
    /\ record.fixed = r.fixed
    /\ record.goal = r.goal
    /\ record.remaining = r.remaining
    /\ record.risk = r.risk
    /\ record.ratio = r.ratio
    /\ record.messages = r.messages
    /\ record.flags = r.flags

\* C19: saving an assessment and reading it back is a round trip:
\* insert_financial_record returns a positive id, get_all_records of the
\* user then contains a record with that id and the same income, fixed,
\* goal, remaining, risk, ratio, messages and flags, and delete_record of
\* the id removes it.
C19_RoundTrip ==
    outcome # None =>
        LET out == outcome[1]
        IN  /\ out.call = "insert_financial_record" =>
                   /\ out.exception = None
                   /\ out.value[1] > 0
            /\ out.call = "get_all_records" =>
                   /\ out.exception = None
                   /\ \A e \in inserted :
                          e.user_id = out.arg =>
                              \E record \in out.value[1] :
                                  /\ record.id = e.id
                                  /\ SameAssessment(record, e.result)
            /\ (out.call = "delete_record" /\ out.arg <= last_id) =>
                   /\ out.exception = None
                   /\ \A row \in financial_records : row.id # out.arg


\* A number below zero.
IsNegative(value) == value.sign < 0 /\ (value.kind # "finite" \/ value.mant > 0)

\* C20: the collector returns None exactly when the trimmed, lower-cased
\* line is q, and otherwise returns only a finite, non-negative number:
\* never a negative, an infinite or a not-a-number value.
C20_ValidatedInput ==
    phase = "returned" =>
        /\ answer = None <=> lower(strip(entered)) = <<"q">>
        /\ answer # None =>
               /\ answer[1].kind = "finite"
               /\ ~IsNegative(answer[1])

\* The flags and the risk of the assessment handed to the latest call.
asked_flags == assessed[1].flags
asked_risk == assessed[1].risk

\* C21: generate_followup_questions returns, for every result of
\* analyze_budget, a non-empty list and leaves the result as it was; the
\* list is chosen by the precedence zero_goal, negative_remaining,
\* unrealistic_goal or goal_too_high, risk Low, default; and the default
\* is reached only for invalid_income results.
C21_FollowupTotal ==
    questions # None =>
        /\ Len(questions[1]) > 0
        /\ result = assessed
        /\ questions[1] =
               IF "zero_goal" \in asked_flags THEN zero_goal_questions
               ELSE IF "negative_remaining" \in asked_flags
               THEN negative_remaining_questions
               ELSE IF asked_flags \cap {"unrealistic_goal", "goal_too_high"} # {}
               THEN goal_questions
               ELSE IF asked_risk = Some("Low") THEN low_risk_questions
               ELSE default_questions
        /\ questions[1] = default_questions => "invalid_income" \in asked_flags

\* The default question was given for an invalid income, and the Low list
\* for a Low risk.
C21_Witness ==
    /\ questions # None
    /\ \/ questions[1] = default_questions /\ "invalid_income" \in asked_flags
       \/ questions[1] = low_risk_questions /\ asked_risk = Some("Low")

\* The risk level the first line of the rules.py report states.
rules_risk == Some(reports[1].rules.messages[1][2])

\* C22: for income > 0, saving_goal > 0 and fixed_expenses >= 0 the three
\* revisions of analyze_budget report the same risk level, and the two
\* dict-returning revisions agree on remaining, ratio and flags.
C22_SameRule ==
    (/\ reports # None
     /\ args.income > 0
     /\ args.saving_goal > 0
     /\ args.fixed_expenses >= 0) =>
        LET cli == reports[1].cli
            app == reports[1].app
        IN  /\ ~IsException(reports[1].rules)
            /\ rules_risk = cli.risk
            /\ cli.risk = app.risk
            /\ cli.remaining = app.remaining
            /\ cli.ratio = app.ratio
            /\ cli.flags = app.flags

\* C23: get_ai_analysis tries the models in the order glm-4, glm-4-plus,
\* glm-3-turbo, chatglm_turbo: a model is called only after every earlier
\* one has failed, the first successful response is returned and no later
\* model is called, the fallback text is returned only after all four calls
\* have failed, and without a client no model is called.
C23_ModelOrder ==
    (given # None /\ revision = "app") =>
        LET n == Len(model_calls)
            r == given[1][1]
        IN  /\ n <= Len(models_to_try)
            /\ \A k \in 1..n : model_calls[k].model = models_to_try[k]
            /\ \A k \in 1..(n - 1) : model_calls[k].raised
            /\ ~client => (n = 0 /\ advice = Some(not_available_text))
            /\ client => n >= 1
            /\ (n >= 1 /\ ~model_calls[n].raised) =>
                   advice = Some(response_content(model_calls[n].model,
                                                  fact_text(r)))
            /\ (n >= 1 /\ model_calls[n].raised) =>
                   (n = Len(models_to_try) /\ advice = Some(fallback_text(r)))

\* The third model answered after two failures, or all four failed.
C23_Witness ==
    /\ given # None
    /\ revision = "app"
    /\ \/ Len(model_calls) = 3 /\ ~model_calls[3].raised
       \/ Len(model_calls) = 4 /\ model_calls[4].raised

\* C24: typing q at any prompt of the command-line loop (start, income,
\* fixed expenses, saving goal, follow-up choice) ends the session: the
\* loop has terminated, and since the q no call of analyze_budget and no
\* call of the language model has been made.
C24_QuitEnds ==
    typed_q =>
        /\ main_pc = "ended"
        /\ crashed = None
        /\ <<analyze_calls, llm_calls>> = calls_at_q

\* q was typed at the follow-up prompt of the second round.
C24_Witness ==
    /\ typed_q
    /\ main_pc = "ended"
    /\ results # None
    /\ analyze_calls = 2
    /\ llm_calls = 1

\* The ids of the records a call of get_all_records returned.
returned_ids == {record.id : record \in outcome[1].value[1]}

\* C25: after any sequence of insert_financial_record, delete_all_records
\* and get_all_records calls with non-empty user ids, get_all_records(u)
\* returns exactly the records inserted with user id u and not since
\* deleted by u, every one of them carrying the user id u.
C25_Isolated ==
    (outcome # None /\ outcome[1].call = "get_all_records") =>
        /\ returned_ids =
               {e.id : e \in {x \in inserted : x.user_id = outcome[1].arg}}
        /\ \A record \in outcome[1].value[1] : record.user_id = outcome[1].arg

\* A user reads her one record after another user, who also had one,
\* deleted all of his.
C25_Witness ==
    /\ outcome # None
    /\ outcome[1].call = "get_all_records"
    /\ last_id = 2
    /\ Cardinality(returned_ids) = 1
    /\ Cardinality(financial_records) = 1

\* C26: is_authenticated() is true, and the run goes past the login page,
\* exactly when the authenticated flag or the guest_mode flag is set; after
\* logout_user both flags are false and user_id and user_data are cleared,
\* and from logout until the next successful login or guest entry every run
\* stops at the login page and no record is read or written.
C26_LogoutStops ==
    /\ [](/\ is_authenticated(session_state) <=>
                 (session_state.authenticated = TRUE
                      \/ session_state.guest_mode = TRUE)
          /\ (run.at = "pages") <=> is_authenticated(session_state)
          /\ logged_out =>
                 /\ session_state = fresh_session
                 /\ run.at = "login_page")
    /\ [][logged_out => UNCHANGED storeVars]_vars

\* A user who saved a record has logged out.
C26_Witness ==
    /\ logged_out
    /\ \E e \in inserted : e.user_id \in {str(user.id) : user \in Users}

\* C27: every record operation of the app runs with a non-empty user id:
\* for an authenticated session the database id of the logged-in user, for
\* a guest session a generated id, which stays the same as long as nobody
\* logs in; the store is never called without a user id.
C27_UserIdNonEmpty ==
    /\ [](/\ (outcome # None) => outcome[1].arg # ""
          /\ (run.at = "pages") =>
                 /\ run.user_id # None
                 /\ run.user_id = session_state.user_id
                 /\ page_user_id # ""
                 /\ IF session_state.authenticated
                    THEN /\ session_state.user_data # None
                         /\ page_user_id = str(session_state.user_data[1].id)
                    ELSE page_user_id \in Uuids)
    /\ [][(/\ session_state.user_id # None
           /\ ~session_state.authenticated
           /\ ~session_state'.authenticated)
              => session_state'.user_id = session_state.user_id]_vars

\* A guest reads the record they saved, after a logged-in user saved one
\* too.
C27_Witness ==
    /\ outcome # None
    /\ outcome[1].call = "get_all_records"
    /\ outcome[1].arg \in Uuids
    /\ outcome[1].value[1] # {}
    /\ session_state.guest_mode
    /\ \E e \in inserted : e.user_id \in {str(user.id) : user \in Users}

\* The value NewsCache.get returned is the one set for the key less than
\* ttl seconds before; an entry it did not return is no longer in the cache
\* unless the call went on to set it again.
get_is_fresh ==
    cached # None =>
        LET key == cached[1].key
            before == cached[1].before
        IN  IF cached[1].value # None
            THEN /\ key \in keys(before)
                 /\ cached[1].value = Some(entry_of(before, key).data)
                 /\ cached[1].time - entry_of(before, key).timestamp
                        < news_cache.ttl
            ELSE key \in keys(news_cache.cache) =>
                     entry_of(news_cache.cache, key).timestamp = cached[1].time

\* C28: within any window shorter than the ttl the fetcher is called at most
\* once per (symbol, days_back) key, whatever list it returned, and
\* NewsCache.get returns a value only if it was set less than ttl seconds
\* ago and removes the entry otherwise.
C28_FetchedOncePerTtl ==
    /\ \A i, j \in 1..Len(fetched) :
           (/\ i < j
            /\ fetched[i].key = fetched[j].key
            /\ ~IsException(fetched[i].gave)) =>
               fetched[j].time - fetched[i].time >= news_cache.ttl
    /\ get_is_fresh

\* C29: for every result analyze_budget can return, the Budget Analysis
\* overview and the dashboard render without error, an absent ratio is
\* shown as 0, and the Good Financial Health box is shown only for risk Low
\* and the Moderate Risk box only for risk Medium.
C29_DisplayNeverFails ==
    shown # None =>
        /\ ~IsException(shown[1])
        /\ (shown[1].page = "Budget Analysis" /\ result[1].ratio = None) =>
               shown[1].ratio_text = Some(format_1f(Some(0)).text)
        /\ shown[1].box = Some("Good Financial Health") =>
               result[1].risk = Some("Low")
        /\ shown[1].box = Some("Moderate Risk") =>
               result[1].risk = Some("Medium")

\* The boxes of the dashboard follow the risk, whatever the result.
dashboard_boxes ==
    (shown # None /\ ~IsException(shown[1])) =>
        /\ (shown[1].box = Some("Good Financial Health")) =>
               result[1].risk = Some("Low")
        /\ (shown[1].box = Some("Moderate Risk")) =>
               result[1].risk = Some("Medium")
        /\ shown[1].page = "Dashboard" => shown[1].box # None

\* The ratio r lies between 0 and 100 and, for a Low result, is at most the
\* percentage of income that remains, up to the rounding to 2 decimals.
ratio_in_range(r) ==
    r.ratio # None =>
        /\ r.ratio[1].kind = "finite"
        /\ 0 <= r.ratio[1].n
        /\ r.ratio[1].n <= 10000
        /\ r.risk = Some("Low") =>
               /\ r.remaining.kind = "finite"
               /\ r.income.kind = "finite"
               /\ 2 * r.ratio[1].n * r.income.n
                      <= 2 * 10000 * r.remaining.n + r.income.n

\* C30: whenever analyze_budget returns a savings ratio it lies between 0
\* and 100 inclusive, and for a Low result it is at most the percentage of
\* income left after fixed expenses, up to the 2-decimal rounding.
C30_RatioInRange ==
    (assessment # None /\ ~IsException(assessment[1])) =>
        ratio_in_range(assessment[1])

\* The same for the assessments of three finite amounts.
finite_ratio_in_range ==
    (/\ assessment # None
     /\ \A k \in 1..3 : floats[k].kind = "finite") =>
        /\ ~IsException(assessment[1])
        /\ ratio_in_range(assessment[1])

=============================================================================
